---- MODULE Spec2Model ----
(***************************************************************************)
(* A model of the gofpdf document engine (Fpdf): the page lifecycle, the   *)
(* Cell / MultiCell layout, the font registry and the serialization.       *)
(*                                                                         *)
(* Numbers.  Every length is held as an integer number of 1/1000 point,    *)
(* that is the Go value in user units times k times 1000.  The code only   *)
(* compares and adds lengths, so the scaling is exact for every unit; the  *)
(* word spacing, the one quotient the code computes, is held as an exact   *)
(* fraction [num, den].  Floating-point rounding is not modelled.          *)
(*                                                                         *)
(* Strings.  A text is a sequence of one-character strings.  A border is a *)
(* sequence of letters (<<>> stands for 0, nil or "", <<"1">> for 1 or     *)
(* "1").  A link is <<"none">>, <<"uri", u>> or <<"int", i>>.              *)
(*                                                                         *)
(* Panics.  panicError sets the field err; every later step of the call in *)
(* progress is skipped, so the record an operation returns is the state    *)
(* the Go struct is left in when the panic unwinds.                        *)
(***************************************************************************)
EXTENDS Integers, Sequences, FiniteSets, TLC

VARIABLES p, call, nops, ret, scan, tick

vars == <<p, call, nops, ret, scan, tick>>

(***************************************************************************)
(* Bounds of the exploration.                                              *)
(***************************************************************************)
MaxOps == 4

(***************************************************************************)
(* Generic helpers.                                                        *)
(***************************************************************************)
MapPut(m, key, v) == [x \in (DOMAIN m) \cup {key} |-> IF x = key THEN v ELSE m[x]]

Has(m, key) == key \in DOMAIN m

EmptyMap == [x \in {} |-> 0]

RECURSIVE Digits(_)
Digits(i) == IF i < 10 THEN 1 ELSE 1 + Digits(i \div 10)

maxInt(a, b) == IF a > b THEN a ELSE b

Contains(s, c) == \E i \in 1..Len(s) : s[i] = c

RECURSIVE Count(_, _)
Count(s, c) == IF s = <<>> THEN 0 ELSE (IF Head(s) = c THEN 1 ELSE 0) + Count(Tail(s), c)

RECURSIVE StripCR(_)
StripCR(s) ==
  IF s = <<>> THEN <<>>
  ELSE IF Head(s) = "\r" THEN StripCR(Tail(s)) ELSE <<Head(s)>> \o StripCR(Tail(s))

\* s[j:i] of Go with 0-based bounds, on a 1-based sequence
Slice(s, j, i) == SubSeq(s, j + 1, i)

Step(d, F(_)) == IF d.err # "" THEN d ELSE F(d)

\* if c { F }
When(c, d, F(_)) == IF c THEN F(d) ELSE d

ZeroWs == [num |-> 0, den |-> 1]

NoLink == <<"none">>

\* the nil *pdfFont
NoFont ==
  [typ |-> "nil", name |-> "", up |-> 0, ut |-> 0, cw |-> [c \in {} |-> 0],
   uv |-> 0, n |-> 0, i |-> 0]

(***************************************************************************)
(* Program constants.                                                      *)
(***************************************************************************)
DefaultMargin == 28350

DefaultLineWidth == 567

DefaultFontSizePt == 12

coreFonts == {"courier", "helvetica", "times", "symbol", "zapfdingbats"}

stdPageSizes ==
  [a3 |-> <<841890, 1190550>>, a4 |-> <<595280, 841890>>, a5 |-> <<420940, 595280>>,
   letter |-> <<612000, 792000>>, legal |-> <<612000, 1008000>>]

Chars == {"a", "b", "c", " ", "\n", "\r", "?", "H", "e", "l", "o", "W", "r", "d", "!"}

\* fonts.go: the font definitions this build embeds, keyed by file name
translatedFPDFFonts ==
  [f \in {"courier.php", "courierb.php", "helvetica.php"} |->
     CASE f = "courier.php" ->
            [typ |-> "Core", name |-> "Courier", up |-> -100, ut |-> 50,
             cw |-> [c \in Chars |-> 600], uv |-> 27, n |-> 0, i |-> 0]
       [] f = "courierb.php" ->
            [typ |-> "Core", name |-> "Courier-Bold", up |-> -100, ut |-> 50,
             cw |-> [c \in Chars |-> 600], uv |-> 0, n |-> 0, i |-> 0]
       [] f = "helvetica.php" ->
            [typ |-> "Core", name |-> "Helvetica", up |-> -100, ut |-> 50,
             cw |-> [c \in Chars |-> 500], uv |-> 0, n |-> 0, i |-> 0]]

\* strings.ToLower(strings.TrimSpace(.)) on the tokens the model passes
ToLower(s) ==
  CASE s = "Arial" -> "arial"
    [] s = "Courier" -> "courier"
    [] s = "Helvetica" -> "helvetica"
    [] s = "Times" -> "times"
    [] s = "Symbol" -> "symbol"
    [] s = "ZapfDingbats" -> "zapfdingbats"
    [] s = "A4" -> "a4"
    [] s = "A5" -> "a5"
    [] s = "A3" -> "a3"
    [] s = "Letter" -> "letter"
    [] s = "Legal" -> "legal"
    [] s = "B5" -> "b5"
    [] s = "P" -> "p"
    [] s = "L" -> "l"
    [] s = "B" -> "b"
    [] s = "I" -> "i"
    [] s = "BI" -> "bi"
    [] OTHER -> s

\* strings.ToUpper on a style
ToUpper(s) ==
  CASE s = "b" -> "B"
    [] s = "i" -> "I"
    [] s = "bi" -> "BI"
    [] s = "ib" -> "IB"
    [] s = "u" -> "U"
    [] s = "bu" -> "BU"
    [] OTHER -> s

\* strings.Contains(style, "U") on an upper-case style
HasU(s) == s \in {"U", "BU", "IU", "BIU", "IBU"}

\* strings.ReplaceAll(style, "U", "")
StripU(s) ==
  CASE s = "U" -> ""
    [] s = "BU" -> "B"
    [] s = "IU" -> "I"
    [] s = "BIU" -> "BI"
    [] s = "IBU" -> "IB"
    [] OTHER -> s

\* style += "U"
AddU(s) ==
  CASE s = "" -> "U"
    [] s = "B" -> "BU"
    [] s = "I" -> "IU"
    [] s = "BI" -> "BIU"
    [] OTHER -> s

\* family + strings.ToLower(style) + ".php"
FontFile(family, style) ==
  CASE family = "courier" /\ style = "" -> "courier.php"
    [] family = "courier" /\ style = "B" -> "courierb.php"
    [] family = "courier" /\ style = "I" -> "courieri.php"
    [] family = "courier" /\ style = "BI" -> "courierbi.php"
    [] family = "helvetica" /\ style = "" -> "helvetica.php"
    [] family = "helvetica" /\ style = "B" -> "helveticab.php"
    [] family = "helvetica" /\ style = "I" -> "helveticai.php"
    [] family = "helvetica" /\ style = "BI" -> "helveticabi.php"
    [] family = "times" /\ style = "" -> "times.php"
    [] family = "times" /\ style = "B" -> "timesb.php"
    [] family = "times" /\ style = "I" -> "timesi.php"
    [] family = "times" /\ style = "BI" -> "timesbi.php"
    [] family = "symbol" /\ style = "" -> "symbol.php"
    [] family = "zapfdingbats" /\ style = "" -> "zapfdingbats.php"
    [] OTHER -> "other.php"

(***************************************************************************)
(* Errors and the page buffer.                                             *)
(***************************************************************************)
setError(d, msg) == [d EXCEPT !.lastError = msg]

panicError(d, msg) == IF d.err # "" THEN d ELSE [d EXCEPT !.err = msg]

Op(name, args) == [op |-> name, a |-> args]

out_anystate(d, s) ==
  IF d.err # "" THEN d
  ELSE IF d.page > 0 THEN [d EXCEPT !.pages[d.page] = Append(@, s)]
       ELSE panicError(d, "no page has been added yet")

out(d, s) ==
  IF d.err # "" THEN d
  ELSE CASE d.state = 2 -> [d EXCEPT !.pages[d.page] = Append(@, s)]
         [] d.state = 0 -> panicError(d, "no page has been added yet")
         [] d.state = 1 -> panicError(d, "invalid call")
         [] OTHER -> panicError(d, "the document is closed")

(***************************************************************************)
(* Cursor, margins, page break mode.                                       *)
(***************************************************************************)
SetX(d, x) == IF x >= 0 THEN [d EXCEPT !.x = x] ELSE [d EXCEPT !.x = d.w + x]

SetY(d, y, resetX) ==
  LET d1 == IF y >= 0 THEN [d EXCEPT !.y = y] ELSE [d EXCEPT !.y = d.h + y]
  IN IF resetX THEN [d1 EXCEPT !.x = d1.lMargin] ELSE d1

SetXY(d, x, y) == SetY(SetX(d, x), y, FALSE)

\* right = -1 stands for the nil pointer
SetMargins(d, left, top, right) ==
  [d EXCEPT !.lMargin = left, !.tMargin = top,
            !.rMargin = IF right = -1 THEN left ELSE right]

SetAutoPageBreak(d, auto, margin) ==
  [d EXCEPT !.autoPageBreak = auto, !.bMargin = margin,
            !.pageBreakTrigger = d.h - margin]

AcceptPageBreak(d) == d.autoPageBreak

SetDisplayMode(d, zoom, layout) == [d EXCEPT !.zoomMode = zoom, !.layoutMode = layout]

SetCompression(d, compress) == [d EXCEPT !.compress = compress]

Ln(d, h) ==
  [d EXCEPT !.x = d.lMargin, !.y = IF h < 0 THEN d.y + d.lasth ELSE d.y + h]

getPageSize(size) ==
  LET s0 == ToLower(size)
      s == IF s0 = "" THEN "a4" ELSE s0
  IN IF s \in DOMAIN stdPageSizes THEN stdPageSizes[s] ELSE stdPageSizes["a4"]

(***************************************************************************)
(* Reset / NewFpdf.                                                        *)
(***************************************************************************)
Reset(d, orientation, unit, size) ==
  LET u == ToLower(unit)
      okUnit == u \in {"pt", "mm", "cm", "in"}
      sz == getPageSize(size)
      o == ToLower(orientation)
      portrait == o = "" \/ o = "p" \/ o = "portrait"
      pw == IF portrait THEN sz[1] ELSE sz[2]
      ph == IF portrait THEN sz[2] ELSE sz[1]
      margin == DefaultMargin
      d1 == [state |-> 0, page |-> 0, n |-> 2, offsets |-> EmptyMap, buffer |-> <<>>,
             buflen |-> 0,
             pages |-> <<>>, pageInfo |-> EmptyMap, fonts |-> EmptyMap,
             images |-> EmptyMap, links |-> EmptyMap, pageLinks |-> EmptyMap,
             inHeader |-> FALSE, inFooter |-> FALSE, lasth |-> 0,
             fontFamily |-> "", fontStyle |-> "", fontSizePt |-> DefaultFontSizePt,
             fontSize |-> d.fontSize, currentFont |-> d.currentFont,
             underline |-> FALSE, drawColor |-> <<"0", "G">>, fillColor |-> <<"0", "g">>,
             textColor |-> <<"0", "g">>, colorFlag |-> FALSE, withAlpha |-> FALSE,
             ws |-> ZeroWs, assetFonts |-> translatedFPDFFonts,
             k |-> IF okUnit THEN u ELSE "mm",
             lastError |-> IF okUnit THEN d.lastError ELSE "incorrect unit",
             defPageSize |-> sz, curPageSize |-> sz,
             defOrientation |-> IF portrait THEN "P" ELSE "L",
             curOrientation |-> IF portrait THEN "P" ELSE "L",
             w |-> pw, h |-> ph, wPt |-> pw, hPt |-> ph, curRotation |-> 0,
             x |-> d.x, y |-> d.y,
             lMargin |-> 0, tMargin |-> 0, rMargin |-> 0, bMargin |-> 0,
             cMargin |-> margin \div 10, lineWidth |-> DefaultLineWidth,
             autoPageBreak |-> FALSE, pageBreakTrigger |-> 0,
             zoomMode |-> "", layoutMode |-> "", compress |-> FALSE,
             metadata |-> {"Producer"}, pdfVersion |-> "1.3", creationDate |-> 0,
             headerFunc |-> d.headerFunc, footerFunc |-> d.footerFunc,
             err |-> d.err, log |-> d.log, hooks |-> [header |-> 0, footer |-> 0, failed |-> 0]]
      d2 == SetMargins(d1, margin, margin, -1)
      d3 == SetAutoPageBreak(d2, TRUE, 2 * margin)
      d4 == SetDisplayMode(d3, "default", "default")
      d5 == SetCompression(d4, TRUE)
  IN [d5 EXCEPT !.lastError = ""]

\* the zero value of the struct, as far as Reset leaves fields alone
ZeroFpdf ==
  [fontSize |-> 0, currentFont |-> NoFont, x |-> 0, y |-> 0, lastError |-> "",
   headerFunc |-> "nil", footerFunc |-> "nil", err |-> "", log |-> <<>>]

NewFpdf(orientation, unit, size) == Reset(ZeroFpdf, orientation, unit, size)

(***************************************************************************)
(* Font registry.                                                          *)
(***************************************************************************)
loadFontAsset(d, file) == IF Has(d.assetFonts, file) THEN d.assetFonts[file] ELSE NoFont

AddFont(d, family0, style0, file0, dir) ==
  IF d.err # "" THEN d
  ELSE
    LET family == ToLower(family0)
        style1 == ToUpper(style0)
        file == IF file0 = "" THEN FontFile(family, style1) ELSE file0
        style == IF style1 = "IB" THEN "BI" ELSE style1
        fontkey == <<family, style>>
        info == loadFontAsset(d, file)
    IN IF Has(d.fonts, fontkey) THEN d
       ELSE IF info.typ = "nil"
            THEN panicError(d, "could not load embedded font definition")
            ELSE [d EXCEPT !.fonts =
                    MapPut(@, fontkey, [info EXCEPT !.i = Cardinality(DOMAIN d.fonts) + 1])]

\* p.fontFamily = family ... p.currentFont = p.fonts[fontkey]
SelectFont(d, family, style, size) ==
  Step(d, LAMBDA e :
    [e EXCEPT !.fontFamily = family, !.fontStyle = style, !.fontSizePt = size,
              !.fontSize = size * 1000, !.currentFont = e.fonts[<<family, style>>]])

\* if p.page > 0 { p.out("BT /F%d %.2F Tf ET") }
EmitFont(d) ==
  IF d.err = "" /\ d.page > 0
  THEN out(d, Op("Tf", <<d.currentFont.i, d.fontSizePt>>))
  ELSE d

SetFont(d, family0, style0, size0) ==
  IF d.err # "" THEN d
  ELSE
    LET family1 == IF family0 = "" THEN d.fontFamily ELSE ToLower(family0)
        styleU == ToUpper(style0)
        d1 == [d EXCEPT !.underline = HasU(styleU)]
        style1 == IF HasU(styleU) THEN StripU(styleU) ELSE styleU
        style2 == IF style1 = "IB" THEN "BI" ELSE style1
        size == IF size0 = 0 THEN d.fontSizePt ELSE size0
        known == Has(d.fonts, <<family1, style2>>)
        family == IF ~known /\ family1 = "arial" THEN "helvetica" ELSE family1
        core == family \in coreFonts
        style == IF ~known /\ core /\ family \in {"symbol", "zapfdingbats"} THEN "" ELSE style2
    IN IF d.fontFamily = family1 /\ d.fontStyle = style2 /\ d.fontSizePt = size THEN d1
       ELSE EmitFont(SelectFont(
              IF known THEN d1
              ELSE IF core
                   THEN (IF Has(d.fonts, <<family, style>>) THEN d1
                         ELSE AddFont(d1, family, style, "", ""))
                   ELSE panicError(d1, "undefined font"),
              family, style, size))

SetFontSize(d, size) ==
  IF d.err # "" \/ d.fontSizePt = size THEN d
  ELSE LET d1 == [d EXCEPT !.fontSizePt = size, !.fontSize = size * 1000]
       IN IF d1.page > 0 /\ d1.currentFont.typ # "nil"
          THEN out(d1, Op("Tf", <<d1.currentFont.i, d1.fontSizePt>>))
          ELSE d1

(***************************************************************************)
(* Colours and line width.  A colour is passed as a token; the operator    *)
(* string the code formats from r, g, b is the token with its suffix.      *)
(***************************************************************************)
ColorOp(c, gray, rgb) ==
  IF c = "black" THEN <<"0.000", gray>> ELSE <<c, rgb>>

SetTextColor(d, c) ==
  IF d.err # "" THEN d ELSE
  LET d1 == [d EXCEPT !.textColor = ColorOp(c, "g", "rg")]
  IN [d1 EXCEPT !.colorFlag = d1.fillColor # d1.textColor]

SetFillColor(d, c) ==
  IF d.err # "" THEN d ELSE
  LET fc == ColorOp(c, "g", "rg")
      d1 == [d EXCEPT !.fillColor = fc, !.colorFlag = fc # d.textColor]
  IN IF d.page > 0 THEN out(d1, Op("color", fc)) ELSE d1

SetDrawColor(d, c) ==
  IF d.err # "" THEN d ELSE
  LET d1 == [d EXCEPT !.drawColor = ColorOp(c, "G", "RG")]
  IN IF d1.page > 0 THEN out(d1, Op("color", d1.drawColor)) ELSE d1

SetLineWidth(d, width) ==
  IF d.err # "" THEN d ELSE
  LET d1 == [d EXCEPT !.lineWidth = width]
  IN IF d1.page > 0 THEN out(d1, Op("w", <<width>>)) ELSE d1

Line(d, x1, y1, x2, y2) == out(d, Op("line", <<x1, d.h - y1, x2, d.h - y2>>))

(***************************************************************************)
(* Metadata.                                                               *)
(***************************************************************************)
SetTitle(d, title) == [d EXCEPT !.metadata = @ \cup {"Title"}]

SetAuthor(d, v) == [d EXCEPT !.metadata = @ \cup {"Author"}]

(***************************************************************************)
(* Text metrics.                                                           *)
(***************************************************************************)
RECURSIVE SumCw(_, _)
SumCw(font, s) == IF s = <<>> THEN 0 ELSE font.cw[Head(s)] + SumCw(font, Tail(s))

GetStringWidth_unscaled(d, s) ==
  IF d.currentFont.typ = "nil" THEN 0 ELSE SumCw(d.currentFont, s)

GetStringWidth(d, s) ==
  IF d.currentFont.typ = "nil" THEN 0
  ELSE (SumCw(d.currentFont, s) * d.fontSize) \div 1000

charWidth(d, c) ==
  IF d.currentFont.typ = "nil" THEN 0
  ELSE LET w == d.currentFont.cw[c]
       IN IF w = 0 THEN d.currentFont.cw["?"] ELSE w

(***************************************************************************)
(* Links.                                                                  *)
(***************************************************************************)
Link(d, x, y, w, h, link) ==
  IF d.err # "" THEN d
  ELSE LET old == IF Has(d.pageLinks, d.page) THEN d.pageLinks[d.page] ELSE <<>>
           rec == [x |-> x, y |-> d.hPt - y, w |-> w, h |-> h, link |-> link, n |-> 0]
       IN [d EXCEPT !.pageLinks = MapPut(@, d.page, Append(old, rec))]

(***************************************************************************)
(* History kept beside the struct: the events of the call in progress.     *)
(***************************************************************************)
Log(d, ev, a) ==
  IF d.err # "" THEN d
  ELSE [d EXCEPT !.log = Append(@, [ev |-> ev, page |-> d.page, a |-> a])]

(***************************************************************************)
(* Page lifecycle.                                                         *)
(***************************************************************************)
\* strings.ToUpper(string(orientation[0]))
FirstUpper(o) ==
  CASE o \in {"P", "p", "portrait", "Portrait"} -> "P"
    [] o \in {"L", "l", "landscape", "Landscape"} -> "L"
    [] OTHER -> o

InfoOf(d, i) == IF Has(d.pageInfo, i) THEN d.pageInfo[i] ELSE EmptyMap

\* p.page++ ... p.fontFamily = ""
NewPage(d) ==
  [d EXCEPT !.page = d.page + 1, !.pages = Append(@, <<>>),
            !.pageLinks = MapPut(@, d.page + 1, <<>>), !.state = 2,
            !.x = d.lMargin, !.y = d.tMargin, !.fontFamily = ""]

\* if orientation != p.curOrientation || ps != p.curPageSize { ... }
SetPageSize(d, orientation, ps) ==
  IF orientation # d.curOrientation \/ ps # d.curPageSize
  THEN [d EXCEPT !.w = IF orientation = "P" THEN ps[1] ELSE ps[2],
                 !.h = IF orientation = "P" THEN ps[2] ELSE ps[1],
                 !.wPt = IF orientation = "P" THEN ps[1] ELSE ps[2],
                 !.hPt = IF orientation = "P" THEN ps[2] ELSE ps[1],
                 !.pageBreakTrigger = (IF orientation = "P" THEN ps[2] ELSE ps[1]) - d.bMargin,
                 !.curOrientation = orientation, !.curPageSize = ps]
  ELSE d

\* if orientation != p.defOrientation || ps != p.defPageSize { pageInfo[page]["size"] = ... }
RecordPageSize(d, orientation, ps) ==
  IF orientation # d.defOrientation \/ ps # d.defPageSize
  THEN [d EXCEPT !.pageInfo =
          MapPut(@, d.page, MapPut(InfoOf(d, d.page), "size", <<d.wPt, d.hPt>>))]
  ELSE d

\* if rotation != 0 { pageInfo[page]["rotation"] = rotation }; p.curRotation = rotation
RecordRotation(d, rotation) ==
  IF rotation # 0
  THEN [d EXCEPT !.pageInfo =
                   MapPut(@, d.page, MapPut(InfoOf(d, d.page), "rotation", rotation)),
                 !.curRotation = rotation]
  ELSE [d EXCEPT !.curRotation = rotation]

beginPage(d0, orientation0, size, rotation) ==
  IF d0.err # "" THEN d0
  ELSE
    LET orientation == IF orientation0 = "" THEN d0.defOrientation
                       ELSE FirstUpper(orientation0)
        ps == IF size = "" THEN d0.defPageSize ELSE getPageSize(size)
    IN RecordRotation(
         RecordPageSize(SetPageSize(NewPage(d0), orientation, ps), orientation, ps),
         rotation)

endPage(d) == IF d.err # "" THEN d ELSE [d EXCEPT !.state = 1]

RECURSIVE Cell(_, _, _, _, _, _, _, _, _)
RECURSIVE AddPage(_, _, _, _)
RECURSIVE RunHook(_, _)
RECURSIVE MultiCell(_, _, _, _, _, _, _)
RECURSIVE Write(_, _, _, _)
RECURSIVE Image(_, _, _, _, _, _, _, _)

\* history: one more invocation of Header or of Footer
Invoked(d, hook) ==
  Log([d EXCEPT !.hooks[IF hook = "Header" THEN "header" ELSE "footer"] = @ + 1], hook, <<>>)

\* history: the invocation returned, or it failed
Returned(d, hook) ==
  IF d.err # "" THEN [d EXCEPT !.hooks.failed = IF hook = "Footer" THEN @ + 1 ELSE @]
  ELSE Log(d, IF hook = "Header" THEN "HeaderEnd" ELSE "FooterEnd", <<>>)

Header(d) ==
  IF d.err # "" THEN d
  ELSE IF d.headerFunc # "nil"
       THEN Returned(RunHook(Invoked(d, "Header"), d.headerFunc), "Header")
       ELSE Returned(Invoked(d, "Header"), "Header")

Footer(d) ==
  IF d.err # "" THEN d
  ELSE IF d.footerFunc # "nil"
       THEN Returned(RunHook(Invoked(d, "Footer"), d.footerFunc), "Footer")
       ELSE Returned(Invoked(d, "Footer"), "Footer")

HookBoxHeight == 900000

HookX == 100000

HookY == 60000

HookLineWidth == 2000

HookFontSize == 16

\* the float that is not a number, as an argument of Image
NaN == -2147483647

\* the closures a client installs with SetHeaderFunc / SetFooterFunc
RunHook(d, f) ==
  CASE f = "move" -> SetXY(d, HookX, HookY)
    [] f = "box" -> Cell(d, 0, HookBoxHeight, <<>>, <<"1">>, 1, "", FALSE, NoLink)
    [] f = "style" -> SetDrawColor(SetLineWidth(d, HookLineWidth), "0.502")
    [] f = "text" -> Cell(d, 0, HookBoxHeight, <<"a">>, <<>>, 1, "", FALSE, NoLink)
    [] f = "multi" -> MultiCell(d, 0, HookBoxHeight, <<"a">>, <<>>, "L", FALSE)
    [] f = "write" -> Write(d, HookBoxHeight, <<"a">>, NoLink)
    [] f = "image" -> Image(d, "a.png", NaN, NaN, 0, HookBoxHeight, "", NoLink)
    [] f = "font" -> SetFont(d, "Courier", "BU", HookFontSize)
    [] f = "colors" -> SetTextColor(SetFillColor(d, "0.502"), "0.251")
    [] OTHER -> d

\* if p.lineWidth != lw { p.lineWidth = lw; p.out(...) }
RestoreLineWidth(d, lw) ==
  IF d.err = "" /\ d.lineWidth # lw
  THEN out([d EXCEPT !.lineWidth = lw], Op("w", <<lw>>))
  ELSE d

RestoreDrawColor(d, dc) ==
  IF d.err = "" /\ d.drawColor # dc
  THEN out([d EXCEPT !.drawColor = dc], Op("color", dc))
  ELSE d

RestoreFillColor(d, fc) ==
  IF d.err = "" /\ d.fillColor # fc
  THEN out([d EXCEPT !.fillColor = fc], Op("color", fc))
  ELSE d

\* family, style, fontsize, lw, dc, fc, tc, cf: the locals of AddPage
SavedStyle(d) ==
  [family |-> d.fontFamily,
   style |-> IF d.underline THEN AddU(d.fontStyle) ELSE d.fontStyle,
   fontsize |-> d.fontSizePt, lw |-> d.lineWidth, dc |-> d.drawColor,
   fc |-> d.fillColor, tc |-> d.textColor, cf |-> d.colorFlag]

ClosePage_nofooter(d) == IF d.err = "" /\ d.page > 0 THEN endPage(d) ELSE d

\* if p.page > 0 { inFooter = true; Footer(); inFooter = false; endPage() }
ClosePage(d) ==
  IF d.err = "" /\ d.page > 0
  THEN endPage(Step(Footer([d EXCEPT !.inFooter = TRUE]),
                    LAMBDA e : [e EXCEPT !.inFooter = FALSE]))
  ELSE d

\* beginPage; out("2 J"); p.lineWidth = lw; out("%.2F w")
StartPage(d, orientation, size, rotation, lw) ==
  out(Step(out(beginPage(d, orientation, size, rotation), Op("2 J", <<>>)),
           LAMBDA e : [e EXCEPT !.lineWidth = lw]),
      Op("w", <<lw>>))

\* if family != "" { p.SetFont(family, style, fontsize) }
ReselectFont(d, sv) ==
  IF sv.family # "" THEN SetFont(d, sv.family, sv.style, sv.fontsize) ELSE d

\* p.drawColor = dc; if dc != "0 G" { out(dc) }
ApplyDrawColor(d, dc) ==
  When(dc # <<"0", "G">>, Step(d, LAMBDA e : [e EXCEPT !.drawColor = dc]),
       LAMBDA e : out(e, Op("color", dc)))

\* p.fillColor = fc; if fc != "0 g" { out(fc) }
ApplyFillColor(d, fc) ==
  When(fc # <<"0", "g">>, Step(d, LAMBDA e : [e EXCEPT !.fillColor = fc]),
       LAMBDA e : out(e, Op("color", fc)))

\* p.textColor = tc; p.colorFlag = cf
ApplyTextColor(d, tc, cf) ==
  Step(d, LAMBDA e : [e EXCEPT !.textColor = tc, !.colorFlag = cf])

\* inHeader = true; Header(); inHeader = false
RunHeader(d) ==
  Step(Header(Step(d, LAMBDA e : [e EXCEPT !.inHeader = TRUE])),
       LAMBDA e : [e EXCEPT !.inHeader = FALSE])

\* the style put back on the new page, before the header runs
ApplyStyle(d, sv) ==
  ApplyTextColor(ApplyFillColor(ApplyDrawColor(ReselectFont(d, sv), sv.dc), sv.fc),
                 sv.tc, sv.cf)

\* the style put back after the header has run
RestoreStyle(d, sv) ==
  ApplyTextColor(
    RestoreFillColor(
      RestoreDrawColor(ReselectFont(RestoreLineWidth(d, sv.lw), sv), sv.dc), sv.fc),
    sv.tc, sv.cf)

AddPage(d0, orientation, size, rotation) ==
  IF d0.err # "" THEN d0
  ELSE IF d0.state = 3 THEN panicError(d0, "the document is closed")
  ELSE RestoreStyle(
         RunHeader(
           ApplyStyle(StartPage(ClosePage(d0), orientation, size, rotation, d0.lineWidth),
                      SavedStyle(d0))),
         SavedStyle(d0))

(***************************************************************************)
(* Cell.                                                                   *)
(***************************************************************************)
RestoreX_drop(d, x) == d

\* p.x = x after the page break
RestoreX(d, x) == IF d.err # "" THEN d ELSE [d EXCEPT !.x = x]

\* if p.ws > 0 { p.ws = 0; p.out("0 Tw") }
ClearWs(d) ==
  IF d.err = "" /\ d.ws.num > 0 THEN out([d EXCEPT !.ws = ZeroWs], Op("Tw", <<ZeroWs>>)) ELSE d

\* if ws > 0 { p.ws = ws; p.out("%.3F Tw") }
RestoreWs(d, ws) ==
  IF ws.num > 0
  THEN out(Step(d, LAMBDA e : [e EXCEPT !.ws = ws]), Op("Tw", <<ws>>))
  ELSE d

\* the automatic page break at the head of Cell
CellPageBreak(d0, h) ==
  IF /\ d0.y + h > d0.pageBreakTrigger
     /\ ~d0.inHeader
     /\ ~d0.inFooter
     /\ AcceptPageBreak(d0)
  THEN RestoreWs(RestoreX(AddPage(ClearWs(d0), d0.curOrientation, "", d0.curRotation),
                          d0.x),
                 d0.ws)
  ELSE d0

\* the rest of Cell; d0 is the document at the call, d1 after the page break
CellDraw(d0, d1, w0, h, txt, border, ln, align, fill, link) ==
  LET w == IF w0 = 0 THEN d1.w - d1.rMargin - d1.x ELSE w0
      rect == fill \/ border = <<"1">>
      paint == IF ~rect THEN ""
               ELSE IF fill THEN (IF border = <<"1">> THEN "B" ELSE "f") ELSE "S"
      sides == {c \in {"L", "T", "R", "B"} : Contains(border, c)}
      hasText == txt # <<>>
      sw == GetStringWidth(d1, txt)
      dx == CASE align = "R" -> w - d1.cMargin - sw
              [] align = "C" -> (w - sw) \div 2
              [] OTHER -> d1.cMargin
      d2 == IF hasText /\ d1.currentFont.typ = "nil"
            THEN panicError(d1, "no font has been set")
            ELSE d1
  IN Step(When(rect \/ sides # {} \/ hasText,
               Log(IF hasText /\ link[1] # "none"
                   THEN Link(d2, d1.x + dx, d1.y + (h \div 2) - (d1.fontSize \div 2), sw,
                             d1.fontSize, link)
                   ELSE d2,
                   "Cell",
                   [txt |-> txt, ln |-> ln, x |-> d1.x, y |-> d1.y, w |-> w, ws |-> d1.ws,
                    inHook |-> d1.inHeader \/ d1.inFooter,
                    page0 |-> d0.page, x0 |-> d0.x, ws0 |-> d0.ws,
                    over |-> d0.y + h > d0.h - d0.bMargin, auto |-> d0.autoPageBreak,
                    pos |-> IF d1.state = 2 THEN Len(d1.pages[d1.page]) + 1 ELSE 0,
                    emits |-> rect \/ sides # {} \/ hasText]),
               LAMBDA e : out(e, Op("Cell", <<paint, sides, txt, d1.x, d1.y, w, h,
                                              d1.underline /\ hasText>>))),
          LAMBDA e :
            [e EXCEPT !.lasth = h,
                      !.y = IF ln > 0 THEN e.y + h ELSE e.y,
                      !.x = IF ln > 0 THEN (IF ln = 1 THEN e.lMargin ELSE e.x)
                            ELSE e.x + w])

Cell(d0, w0, h, txt, border, ln, align, fill, link) ==
  IF d0.err # "" THEN d0
  ELSE CellDraw(d0, CellPageBreak(d0, h), w0, h, txt, border, ln, align, fill, link)

(***************************************************************************)
(* MultiCell.  The scan is the for loop of the code, one iteration per     *)
(* unfolding; st holds the loop variables and the struct.  l > wmax, with  *)
(* wmax = (w - 2*cMargin) * 1000 / fontSize, is compared cross-multiplied. *)
(***************************************************************************)
Overflows_nomargin(d, l, w) == l * d.fontSize > w * 1000

Overflows(d, l, w) == l * d.fontSize > (w - 2 * d.cMargin) * 1000

Justify(d, w, line) ==
  LET spaces == Count(line, " ")
      strW == GetStringWidth(d, line)
      ws == [num |-> w - 2 * d.cMargin - strW, den |-> spaces]
  IN IF d.err = "" /\ spaces > 0 THEN out([d EXCEPT !.ws = ws], Op("Tw", <<ws>>)) ELSE d

ForcedEnd_stay(i, j) == i

\* if i == j { i++ }
ForcedEnd(i, j) == IF i = j THEN i + 1 ELSE i

AfterSep_skip(sep) == sep + 2

\* i = sep + 1
AfterSep(sep) == sep + 1

LineLog(d, kind, line, w) == Log(d, "Line", <<kind, line, w>>)

NextBorder(st) == IF st.b # <<>> /\ st.nl + 1 = 2 THEN st.b2 ELSE st.b

\* p.Cell(w, h, s[j:i], b, 2, align, fill, "")
EmitLine(d, kind, line, w, h, b, align, fill) ==
  Cell(LineLog(d, kind, line, w), w, h, line, b, 2, align, fill, NoLink)

\* what the character at i does: ends a line ("nl"), overflows without a
\* separator ("forced") or with one ("sep"), or is just scanned ("none")
LineKind(d, c, l, w, sep) ==
  IF c = "\n" THEN "nl"
  ELSE IF ~Overflows(d, l, w) THEN "none"
  ELSE IF sep = -1 THEN "forced" ELSE "sep"

\* one iteration of the for loop
MultiCellStep(st, c, w, h, s, align, fill) ==
  LET sep == IF c = " " THEN st.i ELSE st.sep
      ns == IF c = " " THEN st.ns + 1 ELSE st.ns
      l == st.l + charWidth(st.d, c)
      kind == LineKind(st.d, c, l, w, sep)
      end == CASE kind = "nl" -> st.i
               [] kind = "forced" -> ForcedEnd(st.i, st.j)
               [] OTHER -> sep
      next == CASE kind = "nl" -> st.i + 1
                [] kind = "forced" -> ForcedEnd(st.i, st.j)
                [] OTHER -> AfterSep(sep)
  IN IF kind = "none"
     THEN [st EXCEPT !.i = st.i + 1, !.sep = sep, !.ns = ns, !.l = l]
     ELSE [st EXCEPT !.d = EmitLine(IF kind = "sep"
                                    THEN (IF align = "J"
                                          THEN Justify(st.d, w, Slice(s, st.j, end))
                                          ELSE st.d)
                                    ELSE ClearWs(st.d),
                                    kind, Slice(s, st.j, end), w, h, st.b, align, fill),
                     !.i = next, !.sep = -1, !.j = next, !.l = 0, !.ns = 0,
                     !.nl = st.nl + 1, !.b = NextBorder(st)]

RECURSIVE MultiCellLoop(_, _, _, _, _, _, _)
MultiCellLoop(st, w, h, s, nb, align, fill) ==
  IF st.d.err # "" \/ st.i >= nb THEN st
  ELSE MultiCellLoop(MultiCellStep(st, s[st.i + 1], w, h, s, align, fill),
                     w, h, s, nb, align, fill)

\* after the loop: the last line, then p.x = p.lMargin
MultiCellLast(st, w, h, s, border, align, fill) ==
  Step(EmitLine(ClearWs(st.d), "last", Slice(s, st.j, st.i), w, h,
                IF border = <<"1">> \/ Contains(border, "B") THEN st.b \o <<"B">> ELSE st.b,
                align, fill),
       LAMBDA e : [e EXCEPT !.x = e.lMargin])

\* if w == 0 { w = p.w - p.rMargin - p.x }
MultiCellWidth(d0, w0) == IF w0 = 0 THEN d0.w - d0.rMargin - d0.x ELSE w0

\* nb := len(s); if nb > 0 && s[nb-1] == '\n' { nb-- }
MultiCellNb(s) == IF Len(s) > 0 /\ s[Len(s)] = "\n" THEN Len(s) - 1 ELSE Len(s)

\* b, b2 and the loop variables before the first iteration
MultiCellInit(d0, border) ==
  LET one == border = <<"1">>
      b2 == IF border = <<>> THEN <<>>
            ELSE IF one THEN <<"L", "R">>
            ELSE (IF Contains(border, "L") THEN <<"L">> ELSE <<>>)
                   \o (IF Contains(border, "R") THEN <<"R">> ELSE <<>>)
      b == IF border = <<>> THEN <<>>
           ELSE IF one THEN <<"L", "R", "T">>
           ELSE IF Contains(border, "T") THEN b2 \o <<"T">> ELSE b2
  IN [d |-> d0, i |-> 0, j |-> 0, l |-> 0, ns |-> 0, nl |-> 1, sep |-> -1, b |-> b,
      b2 |-> b2]

MultiCell(d0, w0, h, txt, border, align, fill) ==
  IF d0.err # "" THEN d0
  ELSE IF d0.currentFont.typ = "nil" THEN panicError(d0, "no font has been set")
  ELSE MultiCellLast(MultiCellLoop(MultiCellInit(d0, border), MultiCellWidth(d0, w0), h,
                                   StripCR(txt), MultiCellNb(StripCR(txt)), align, fill),
                     MultiCellWidth(d0, w0), h, StripCR(txt), border, align, fill)

(***************************************************************************)
(* Write.  st holds the loop variables, the line width w among them, and   *)
(* the struct; wmax is recomputed from w wherever it is compared.          *)
(***************************************************************************)
\* w = p.w - p.rMargin - p.x
RemainingWidth(d) == d.w - d.rMargin - d.x

\* p.Cell(w, h, line, 0, ln, "", false, link)
WriteCell(d, w, h, line, ln, link) == Cell(d, w, h, line, <<>>, ln, "", FALSE, link)

\* if nl == 1 { p.x = p.lMargin; w = p.w - p.rMargin - p.x }; nl++
WriteNewLine(st) ==
  IF st.d.err # "" THEN st
  ELSE IF st.nl = 1
       THEN [st EXCEPT !.d = [st.d EXCEPT !.x = st.d.lMargin],
                       !.w = st.d.w - st.d.rMargin - st.d.lMargin, !.nl = 2]
       ELSE [st EXCEPT !.nl = st.nl + 1]

\* what the character at i does: ends a line ("nl"), overflows with a
\* separator ("sep"), overflows without one right of the left margin ("wrap")
\* or at it ("forced"), or is just scanned ("none")
WriteKind(d, c, l, w, sep) ==
  IF c = "\n" THEN "nl"
  ELSE IF ~Overflows(d, l, w) THEN "none"
  ELSE IF sep # -1 THEN "sep"
  ELSE IF d.x > d.lMargin THEN "wrap" ELSE "forced"

\* p.x = p.lMargin; p.y += h; w = ...; i++; nl++; continue
WriteWrap(st, h, l) ==
  [st EXCEPT !.d = [st.d EXCEPT !.x = st.d.lMargin, !.y = st.d.y + h],
             !.w = st.d.w - st.d.rMargin - st.d.lMargin,
             !.i = st.i + 1, !.nl = st.nl + 1, !.l = l]

\* one iteration of the for loop
WriteStep(st, c, h, s, link) ==
  LET sep == IF c = " " THEN st.i ELSE st.sep
      l == st.l + charWidth(st.d, c)
      kind == WriteKind(st.d, c, l, st.w, sep)
      end == CASE kind = "nl" -> st.i
               [] kind = "forced" -> ForcedEnd(st.i, st.j)
               [] OTHER -> sep
      next == CASE kind = "nl" -> st.i + 1
                [] kind = "forced" -> ForcedEnd(st.i, st.j)
                [] OTHER -> sep + 1
  IN CASE kind = "none" -> [st EXCEPT !.i = st.i + 1, !.sep = sep, !.l = l]
       [] kind = "wrap" -> WriteWrap(st, h, l)
       [] OTHER ->
            WriteNewLine([st EXCEPT !.d = WriteCell(st.d, st.w, h, Slice(s, st.j, end), 2,
                                                    link),
                                    !.i = next, !.sep = -1, !.j = next, !.l = 0])

RECURSIVE WriteLoop(_, _, _, _)
WriteLoop(st, h, s, link) ==
  IF st.d.err # "" \/ st.i >= Len(s) THEN st
  ELSE WriteLoop(WriteStep(st, s[st.i + 1], h, s, link), h, s, link)

WriteLast_fullwidth(st, h, s, link) ==
  IF st.d.err = "" /\ st.i # st.j
  THEN WriteCell(st.d, st.w, h, Slice(s, st.j, Len(s)), 0, link)
  ELSE st.d

\* if i != j { p.Cell(float64(l)/1000*p.fontSize, h, s[j:], 0, 0, "", false, link) }
WriteLast(st, h, s, link) ==
  IF st.d.err = "" /\ st.i # st.j
  THEN WriteCell(st.d, (st.l * st.d.fontSize) \div 1000, h, Slice(s, st.j, Len(s)), 0, link)
  ELSE st.d

\* w and the loop variables before the first iteration
WriteInit(d0) ==
  [d |-> d0, i |-> 0, j |-> 0, l |-> 0, nl |-> 1, sep |-> -1, w |-> RemainingWidth(d0)]

Write(d0, h, txt, link) ==
  IF d0.err # "" THEN d0
  ELSE IF d0.currentFont.typ = "nil" THEN panicError(d0, "no font has been set")
  ELSE WriteLast(WriteLoop(WriteInit(d0), h, StripCR(txt), link), h, StripCR(txt), link)

(***************************************************************************)
(* Image.  The files the process can open are the environment: ImageFiles  *)
(* gives what parseImageFile decodes from each (pixel width and height,    *)
(* bytes of data).                                                         *)
(***************************************************************************)
\* the nil *pdfImage
NoImage == [w |-> 0, h |-> 0, len |-> 0, n |-> 0, i |-> 0]

ImageFiles ==
  [f \in {"a.png", "b.jpg"} |->
     IF f = "a.png" THEN [w |-> 96, h |-> 48, len |-> 400, n |-> 0, i |-> 0]
     ELSE [w |-> 48, h |-> 96, len |-> 300, n |-> 0, i |-> 0]]

\* strings.ToLower(strings.TrimPrefix(filepath.Ext(file), "."))
Ext(file) ==
  CASE file \in {"a.png", "gone.png"} -> "png"
    [] file = "b.jpg" -> "jpg"
    [] file = "c.bmp" -> "bmp"
    [] OTHER -> ""

parseImageFile(d, file) ==
  IF Has(ImageFiles, file) THEN ImageFiles[file] ELSE NoImage

\* the image type after defaulting to the extension and lower-casing
ImageType(file, typ) ==
  LET t == IF typ = "" THEN Ext(file) ELSE ToLower(typ)
  IN IF t = "jpeg" THEN "jpg" ELSE t

\* info, ok := p.images[file]; if !ok { ... p.images[file] = info }
RegisterImage(d, file, typ) ==
  IF Has(d.images, file) THEN d
  ELSE IF typ = "" /\ Ext(file) = ""
  THEN panicError(d, "image file has no extension and no type was specified")
  ELSE IF ImageType(file, typ) \notin {"jpg", "png", "gif"}
  THEN panicError(d, "unsupported image type")
  ELSE IF ~Has(ImageFiles, file) THEN panicError(d, "can't open image file")
  ELSE [d EXCEPT !.images =
          MapPut(@, file, [parseImageFile(d, file) EXCEPT !.i = Cardinality(DOMAIN d.images) + 1])]

\* the width and height of the drawing from the arguments and the pixels;
\* a negative argument is a resolution in dots per inch
ImageSize(info, w0, h0) ==
  LET w1 == IF w0 = 0 /\ h0 = 0 THEN -96 ELSE w0
      h1 == IF w0 = 0 /\ h0 = 0 THEN -96 ELSE h0
      w2 == IF w1 < 0 THEN (info.w * 72000) \div (-w1) ELSE w1
      h2 == IF h1 < 0 THEN (info.h * 72000) \div (-h1) ELSE h1
      w3 == IF w2 = 0 THEN (h2 * info.w) \div info.h ELSE w2
      h3 == IF h2 = 0 THEN (w3 * info.h) \div info.w ELSE h2
  IN <<w3, h3>>

\* the automatic page break of an image that flows at the cursor
ImagePageBreak(d, y, h) ==
  IF /\ d.err = ""
     /\ y = NaN
     /\ d.y + h > d.pageBreakTrigger
     /\ ~d.inHeader
     /\ ~d.inFooter
     /\ AcceptPageBreak(d)
  THEN RestoreX(AddPage(d, d.curOrientation, "", d.curRotation), d.x)
  ELSE d

ImageLog(d, d0, y, h) ==
  Log(d, "Image", [inHook |-> d0.inHeader \/ d0.inFooter, page0 |-> d0.page,
                   flows |-> y = NaN, over |-> d0.y + h > d0.pageBreakTrigger])

\* y = p.y; p.y += h; x = p.x; p.out(...); p.Link(...)
ImageDraw(d, i, x0, y0, w, h, link) ==
  LET x == IF x0 = NaN THEN d.x ELSE x0
      y == IF y0 = NaN THEN d.y ELSE y0
  IN When(link[1] # "none",
          out(Step(d, LAMBDA e : [e EXCEPT !.y = IF y0 = NaN THEN e.y + h ELSE e.y]),
              Op("Image", <<i, x, y, w, h>>)),
          LAMBDA e : Link(e, x, y, w, h, link))

\* the rest of Image; d is the document after the image was registered
ImagePlace(d0, d, file, x, y, w, h, link) ==
  IF d.err # "" THEN d
  ELSE ImageDraw(ImageLog(ImagePageBreak(d, y, ImageSize(d.images[file], w, h)[2]), d0, y,
                          ImageSize(d.images[file], w, h)[2]),
                 d.images[file].i, x, y,
                 ImageSize(d.images[file], w, h)[1], ImageSize(d.images[file], w, h)[2], link)

Image(d0, file, x, y, w, h, typ, link) ==
  IF d0.err # "" THEN d0
  ELSE IF file = "" THEN panicError(d0, "image file name is empty")
  ELSE ImagePlace(d0, RegisterImage(d0, file, typ), file, x, y, w, h, link)

(***************************************************************************)
(* Serialization.  The output buffer is a sequence of lines; a line holds  *)
(* what it says (t, a) and the number of bytes it takes, its newline       *)
(* included.  buflen is the length of the byte buffer.  Consecutive put    *)
(* calls of the code are written as one putAll of their lines.             *)
(***************************************************************************)
getOffset(d) == d.buflen

\* one line written by put: the string and the newline
L(t, a, len) == [t |-> t, a |-> a, len |-> len + 1]

RECURSIVE SumLen(_)
SumLen(b) == IF b = <<>> THEN 0 ELSE Head(b).len + SumLen(Tail(b))

putAll(d, lines) ==
  [d EXCEPT !.buffer = @ \o lines, !.buflen = @ + SumLen(lines)]

put(d, t, a, len) == putAll(d, <<L(t, a, len)>>)

newObj_late(d, forced) ==
  LET n == IF forced > 0 THEN forced ELSE d.n + 1
      d1 == IF forced > 0 THEN [d EXCEPT !.n = maxInt(d.n, forced)] ELSE [d EXCEPT !.n = d.n + 1]
      d2 == put(d1, "obj", <<n>>, Digits(n) + 6)
  IN [d2 EXCEPT !.offsets = MapPut(@, n, getOffset(d2))]

newObj_stuck(d, forced) ==
  LET n == IF forced > 0 THEN forced ELSE d.n + 1
      d1 == IF forced > 0 THEN [d EXCEPT !.n = maxInt(d.n, forced)] ELSE d
      d2 == [d1 EXCEPT !.offsets = MapPut(@, n, getOffset(d1))]
  IN put(d2, "obj", <<n>>, Digits(n) + 6)

\* forced = 0 stands for the call without argument
newObj(d, forced) ==
  LET n == IF forced > 0 THEN forced ELSE d.n + 1
      d1 == IF forced > 0 THEN [d EXCEPT !.n = maxInt(d.n, forced)] ELSE [d EXCEPT !.n = d.n + 1]
      d2 == [d1 EXCEPT !.offsets = MapPut(@, n, getOffset(d1))]
  IN put(d2, "obj", <<n>>, Digits(n) + 6)

\* data is written raw, followed by one newline byte
StreamLines(dataLen) ==
  <<L("stream", <<>>, 6), [t |-> "data", a |-> <<dataLen>>, len |-> dataLen + 1],
    L("endstream", <<>>, 9)>>

putStream(d, dataLen) == putAll(d, StreamLines(dataLen))

\* the length of the zlib stream of n bytes: some function of the data
flateCompress(n) == n \div 2 + 11

putStreamObject(d, dataLen0) ==
  LET dataLen == IF d.compress THEN flateCompress(dataLen0) ELSE dataLen0
  IN put(putStream(put(newObj(d, 0), "<</Length", <<d.compress, dataLen>>,
                       (IF d.compress THEN 21 ELSE 0) + 8 + Digits(dataLen) + 4),
                   dataLen),
         "endobj", <<>>, 6)

\* the bytes of one content operator
OpLen(o) == IF o.op = "Cell" THEN 60 + Len(o.a[3]) ELSE 12

RECURSIVE ContentLen(_)
ContentLen(ops) == IF ops = <<>> THEN 0 ELSE OpLen(Head(ops)) + 1 + ContentLen(Tail(ops))

\* strings.Join(pages[n], "\n") + "\n"
PageContentLen(ops) == IF ops = <<>> THEN 1 ELSE ContentLen(ops)

LinksOf(d, i) == IF Has(d.pageLinks, i) THEN d.pageLinks[i] ELSE <<>>

\* the annotation object of one recorded link
putLink(d, pl) ==
  LET lnk == pl.link[2]
      dst == IF Has(d.links, lnk) THEN d.links[lnk] ELSE <<0, 0>>
      page == dst[1]
      info == InfoOf(d, page)
      hPage == IF Has(info, "size") THEN info["size"][2] ELSE d.hPt
      nobj == IF Has(info, "n") THEN info["n"] ELSE 0
  IN putAll(newObj(d, 0),
            <<IF pl.link[1] = "uri"
              THEN L("/A /URI", <<pl.link[2]>>, 90)
              ELSE L("/Dest", <<nobj, hPage - dst[2]>>, 90 + Digits(nobj)),
              L("endobj", <<>>, 6)>>)

\* the annotation objects of the links 1..idx of page pg
RECURSIVE putLinksUpTo(_, _, _)
putLinksUpTo(d, pg, idx) ==
  IF idx = 0 THEN d ELSE putLink(putLinksUpTo(d, pg, idx - 1), LinksOf(d, pg)[idx])

putLinks(d, pg) == putLinksUpTo(d, pg, Len(LinksOf(d, pg)))

RECURSIVE AnnotsLen(_)
AnnotsLen(ls) == IF ls = <<>> THEN 0 ELSE Digits(Head(ls).n) + 5 + AnnotsLen(Tail(ls))

\* the dictionary of page pg, written after its newObj
putPageDict(d, pg) ==
  LET info == InfoOf(d, pg)
      ls == LinksOf(d, pg)
  IN putAll(d,
       <<L("/Type /Page", <<>>, 13), L("/Parent", <<1>>, 13)>>
       \o (IF Has(info, "size") THEN <<L("/MediaBox", info["size"], 30)>> ELSE <<>>)
       \o (IF Has(info, "rotation")
           THEN <<L("/Rotate", <<info["rotation"]>>, 8 + Digits(info["rotation"]))>>
           ELSE <<>>)
       \o <<L("/Resources", <<2>>, 16)>>
       \o (IF Len(ls) > 0
           THEN <<L("/Annots", [i \in 1..Len(ls) |-> ls[i].n], 10 + AnnotsLen(ls))>>
           ELSE <<>>)
       \o (IF d.withAlpha THEN <<L("/Group", <<>>, 55)>> ELSE <<>>)
       \o <<L("/Contents", <<d.n + 1>>, 16 + Digits(d.n + 1)),
            L("endobj", <<>>, 6)>>)

putPage(d, pg) ==
  putLinks(putStreamObject(putPageDict(newObj(d, 0), pg), PageContentLen(d.pages[pg])), pg)

RECURSIVE NumberPages_nolinks(_, _, _)
NumberPages_nolinks(d, i, n) ==
  IF i > d.page THEN d
  ELSE LET ls == LinksOf(d, i)
           e1 == [d EXCEPT !.pageInfo = MapPut(@, i, MapPut(InfoOf(d, i), "n", n + 1))]
           e2 == [e1 EXCEPT !.pageLinks =
                    MapPut(@, i, [idx \in 1..Len(ls) |-> [ls[idx] EXCEPT !.n = n + 2 + idx]])]
       IN NumberPages_nolinks(e2, i + 1, n + 2)

\* pass 1 of putPages: the numbers of the page and annotation objects
RECURSIVE NumberPages(_, _, _)
NumberPages(d, i, n) ==
  IF i > d.page THEN d
  ELSE LET ls == LinksOf(d, i)
           e1 == [d EXCEPT !.pageInfo = MapPut(@, i, MapPut(InfoOf(d, i), "n", n + 1))]
           e2 == [e1 EXCEPT !.pageLinks =
                    MapPut(@, i, [idx \in 1..Len(ls) |-> [ls[idx] EXCEPT !.n = n + 2 + idx]])]
       IN NumberPages(e2, i + 1, n + 2 + Len(ls))

\* pass 2 of putPages: the page objects 1..i, one page after the other
RECURSIVE putPageObjects(_, _)
putPageObjects(d, i) ==
  IF i = 0 THEN d ELSE Step(putPageObjects(d, i - 1), LAMBDA e : putPage(e, i))

\* object 1: the page tree
putPagesRoot(d) ==
  putAll(d, <<L("/Type /Pages", <<>>, 14),
              L("/Kids", [i \in 1..d.page |-> InfoOf(d, i)["n"]], 8 + 6 * d.page),
              L("/Count", <<d.page>>, 7 + Digits(d.page)),
              L("/MediaBox", IF d.defOrientation # "P"
                             THEN <<d.defPageSize[2], d.defPageSize[1]>>
                             ELSE d.defPageSize, 30),
              L(">>", <<>>, 2), L("endobj", <<>>, 6)>>)

putPages(d) ==
  putPagesRoot(newObj(putPageObjects(NumberPages(d, 1, d.n), d.page), 1))

\* the bytes of the text-extraction map of a font with uv entries
toUnicodeCMap(uv) == 330 + 20 * uv

\* f.n = p.n
SetFontN(d, key) == [d EXCEPT !.fonts[key].n = d.n]

\* p.newObj(); f.n = p.n
putFontObj(d, key) == SetFontN(newObj(d, 0), key)

\* if len(f.uv) > 0 { p.putStreamObject(cmap); toUnicodeObj = p.n }
putToUnicode(d, key) ==
  IF d.fonts[key].uv > 0 THEN putStreamObject(d, toUnicodeCMap(d.fonts[key].uv)) ELSE d

\* the font dictionary; d is the document after putToUnicode
putFontDict(d, key) ==
  LET f == d.fonts[key]
      toUnicodeObj == IF f.uv > 0 THEN d.n ELSE 0
  IN putAll(putFontObj(d, key),
            <<L("/Type /Font", <<>>, 13), L("/BaseFont", <<f.name>>, 20),
              L("/Subtype /Type1", <<>>, 15)>>
            \o (IF f.name # "Symbol" /\ f.name # "ZapfDingbats"
                THEN <<L("/Encoding", <<>>, 26)>> ELSE <<>>)
            \o (IF toUnicodeObj > 0
                THEN <<L("/ToUnicode", <<toUnicodeObj>>, 15 + Digits(toUnicodeObj))>>
                ELSE <<>>)
            \o <<L(">>", <<>>, 2), L("endobj", <<>>, 6)>>)

putFont(d, key) == putFontDict(putToUnicode(d, key), key)

\* order: the font keys in the order the map iteration yields them
RECURSIVE putFonts(_, _)
putFonts(d, order) ==
  IF order = <<>> THEN d ELSE putFonts(putFont(d, Head(order)), Tail(order))

\* p.newObj(); info.n = p.n
putImageObj(d, file) == [newObj(d, 0) EXCEPT !.images[file].n = d.n + 1]

putImage(d, file) ==
  put(putStream(putAll(putImageObj(d, file),
                   <<L("/Type /XObject", <<>>, 16), L("/Subtype /Image", <<>>, 15),
                     L("/Width", <<d.images[file].w>>, 7 + Digits(d.images[file].w)),
                     L("/Height", <<d.images[file].h>>, 8 + Digits(d.images[file].h)),
                     L("/ColorSpace", <<>>, 21), L("/BitsPerComponent", <<>>, 19),
                     L("/Filter", <<>>, 18),
                     L("/Length", <<d.images[file].len>>,
                       10 + Digits(d.images[file].len))>>),
                d.images[file].len),
      "endobj", <<>>, 6)

\* order: the image keys in the order the map iteration yields them
RECURSIVE putImages(_, _)
putImages(d, order) ==
  IF order = <<>> THEN d
  ELSE putImages(putImage(d, Head(order)), Tail(order))

\* order.fonts and order.images: the keys as the two map iterations yield them
putResourceDict(d, order) ==
  putAll(d, <<L("/ProcSet", <<>>, 45), L("/Font <<", <<>>, 8)>>
            \o [idx \in 1..Len(order.fonts) |->
                  L("/F", <<d.fonts[order.fonts[idx]].i, d.fonts[order.fonts[idx]].n>>,
                    7 + Digits(d.fonts[order.fonts[idx]].i)
                      + Digits(d.fonts[order.fonts[idx]].n))]
            \o <<L(">>", <<>>, 2), L("/XObject <<", <<>>, 11)>>
            \o [idx \in 1..Len(order.images) |->
                  L("/I", <<d.images[order.images[idx]].i, d.images[order.images[idx]].n>>,
                    7 + Digits(d.images[order.images[idx]].i)
                      + Digits(d.images[order.images[idx]].n))]
            \o <<L(">>", <<>>, 2)>>)

putResources(d, order, order2) ==
  putAll(putResourceDict(put(newObj(putImages(putFonts(d, order.fonts), order.images), 2),
                             "<<", <<>>, 2),
                         order2),
         <<L(">>", <<>>, 2), L("endobj", <<>>, 6)>>)

MetaKeys == <<"Author", "CreationDate", "Creator", "Keywords", "Producer", "Subject", "Title">>

putInfo(d) ==
  LET d1 == [d EXCEPT !.metadata = @ \cup {"CreationDate"}]
      keys == SelectSeq(MetaKeys, LAMBDA key : key \in d1.metadata)
  IN putAll(d1, [idx \in 1..Len(keys) |-> L("/Info", <<keys[idx]>>, 30)])

putCatalog(d) ==
  LET n == IF Has(InfoOf(d, 1), "n") THEN InfoOf(d, 1)["n"] ELSE 0
  IN putAll(d, <<L("/Type /Catalog", <<>>, 14), L("/Pages", <<1>>, 12)>>
               \o (IF d.zoomMode \in {"fullpage", "fullwidth", "real"}
                   THEN <<L("/OpenAction", <<n, d.zoomMode>>, 30)>> ELSE <<>>)
               \o (IF d.layoutMode \in {"single", "continuous", "two"}
                   THEN <<L("/PageLayout", <<d.layoutMode>>, 25)>> ELSE <<>>))

putHeader(d) == put(d, "%PDF-", <<d.pdfVersion>>, 8)

putTrailer(d) ==
  putAll(d, <<L("/Size", <<d.n + 1>>, 6 + Digits(d.n + 1)),
              L("/Root", <<d.n>>, 10 + Digits(d.n)),
              L("/Info", <<d.n - 1>>, 10 + Digits(d.n - 1))>>)

\* p.newObj(); put("<<"); putInfo(); put(">>"); put("endobj")
putInfoObj(d) ==
  putAll(putInfo(put(newObj(d, 0), "<<", <<>>, 2)),
         <<L(">>", <<>>, 2), L("endobj", <<>>, 6)>>)

\* p.newObj(); put("<<"); putCatalog(); put(">>"); put("endobj")
putCatalogObj(d) ==
  putAll(putCatalog(put(newObj(d, 0), "<<", <<>>, 2)),
         <<L(">>", <<>>, 2), L("endobj", <<>>, 6)>>)

\* the cross-reference table
putXref(d) ==
  putAll(d, <<L("xref", <<>>, 4), L("0 n", <<d.n + 1>>, 2 + Digits(d.n + 1)),
              L("free", <<>>, 20)>>
            \o [i \in 1..d.n |->
                  L("xrefentry", <<IF Has(d.offsets, i) THEN d.offsets[i] ELSE 0>>, 20)]
            \o <<L("trailer", <<>>, 7), L("<<", <<>>, 2)>>)

\* the trailer, startxref with the offset taken before the table, %%EOF
putEnd(d, offset) ==
  putAll(putTrailer(d),
         <<L(">>", <<>>, 2), L("startxref", <<>>, 9),
           L("offset", <<offset>>, Digits(offset)), L("%%EOF", <<>>, 5)>>)

putXrefAndEnd_after(d) == [putEnd(putXref(d), getOffset(putXref(d))) EXCEPT !.state = 3]

\* offset := p.getOffset(); xref; trailer; p.state = 3
putXrefAndEnd(d) == [putEnd(putXref(d), getOffset(d)) EXCEPT !.state = 3]

endDoc(d, now, order, order2) ==
  IF d.err # "" THEN d
  ELSE Step(Step(Step(Step(putPages(putHeader([d EXCEPT !.creationDate = now])),
                           LAMBDA e : putResources(e, order, order2)),
                      LAMBDA e : putInfoObj(e)),
                 LAMBDA e : putCatalogObj(e)),
            LAMBDA e : putXrefAndEnd(e))

\* if p.page == 0 { p.AddPage("", "", 0) }
FirstPage(d) == IF d.page = 0 THEN AddPage(d, "", "", 0) ELSE d

\* inFooter = true; Footer(); inFooter = false; endPage(); endDoc()
FinishDoc(d, now, order, order2) ==
  endDoc(endPage(Step(Footer(Step(d, LAMBDA e : [e EXCEPT !.inFooter = TRUE])),
                      LAMBDA e : [e EXCEPT !.inFooter = FALSE])),
         now, order, order2)

Close_noguard(d0, now, order, order2) == FinishDoc(FirstPage(d0), now, order, order2)

Close(d0, now, order, order2) ==
  IF d0.err # "" \/ d0.state = 3 THEN d0
  ELSE FinishDoc(FirstPage(d0), now, order, order2)

\* Output with dest "S" or "": the bytes; any other dest is an error result
Output(d0, dest, now, order, order2) == Close(d0, now, order, order2)

(***************************************************************************)
(* The client.  Every action is one call of the public API; call names it, *)
(* nops counts the calls, ret is what the last Output returned.            *)
(***************************************************************************)
Perms(S) ==
  {s \in [1..Cardinality(S) -> S] : \A i, j \in 1..Cardinality(S) : i # j => s[i] # s[j]}

\* the orders in which one iteration over p.fonts and one over p.images can run
Orders(d) == [fonts : Perms(DOMAIN d.fonts), images : Perms(DOMAIN d.images)]

Begin(d) == [d EXCEPT !.err = "", !.log = <<>>]

\* the call and what the document was when it was made
Called(name, args) ==
  [op |-> name, a |-> args, pre |-> p.state, page |-> p.page, x |-> p.x, y |-> p.y,
   trig |-> p.h - p.bMargin, auto |-> p.autoPageBreak]

\* the call name(args) takes the document to d
Apply(name, args, d) ==
  /\ p' = d
  /\ call' = Called(name, args)
  /\ nops' = nops + 1
  /\ ret' = ret
  /\ scan' = scan
  /\ tick' = tick

Do(name, args, d) == nops < MaxOps /\ Apply(name, args, d)

\* no MultiCell or Write call is in progress
NoScan == [op |-> "none"]

Init ==
  /\ p = NewFpdf("P", "mm", "A4")
  /\ call = [op |-> "NewFpdf", a |-> <<"P", "mm", "A4">>, pre |-> 0, page |-> 0, x |-> 0,
             y |-> 0, trig |-> 0, auto |-> FALSE]
  /\ nops = 0
  /\ ret = <<>>
  /\ scan = NoScan
  /\ tick = 0

CellHeight == 10000

LinkBox == 20000

DoReset ==
  \E a \in {<<"L", "pt", "Letter">>} :
    Do("Reset", a, Reset(Begin(p), a[1], a[2], a[3]))

DoSetHeaderFunc(Hooks) ==
  \E f \in Hooks : Do("SetHeaderFunc", <<f>>, [Begin(p) EXCEPT !.headerFunc = f])

DoSetFooterFunc(Hooks) ==
  \E f \in Hooks : Do("SetFooterFunc", <<f>>, [Begin(p) EXCEPT !.footerFunc = f])

DoAddPage(Args) ==
  \E a \in Args : Do("AddPage", a, AddPage(Begin(p), a[1], a[2], a[3]))

DoSetFont(Args) ==
  \E a \in Args : Do("SetFont", a, SetFont(Begin(p), a[1], a[2], a[3]))

DoCell(Args) ==
  \E a \in Args :
    Do("Cell", a, Cell(Begin(p), a[1], a[2], a[3], a[4], a[5], a[6], a[7], a[8]))

DoMultiCell(Args) ==
  \E a \in Args :
    Do("MultiCell", a, MultiCell(Begin(p), a[1], a[2], a[3], a[4], a[5], a[6]))

DoLink(Links) ==
  \E l \in Links : Do("Link", <<l>>, Link(Begin(p), LinkBox, LinkBox, LinkBox, LinkBox, l))

DoLine == Do("Line", <<>>, Line(Begin(p), 0, 0, LinkBox, LinkBox))

DoClose ==
  \E order \in Orders(p), order2 \in Orders(p) :
    Do("Close", <<>>, Close(Begin(p), 1, order, order2))

DoOutput ==
  \E order \in Orders(p), order2 \in Orders(p) :
    /\ nops < MaxOps
    /\ p' = Output(Begin(p), "S", 1, order, order2)
    /\ call' = Called("Output", <<"S">>)
    /\ nops' = nops + 1
    /\ ret' = p'.buffer
    /\ scan' = scan
    /\ tick' = tick

PageArgs == {<<"", "", 0>>, <<"L", "A5", 90>>}

FontArgs == {<<"Courier", "", 12>>, <<"Arial", "", 12>>}

CellArgs ==
  {<<0, CellHeight, <<"a">>, <<>>, 1, "", FALSE, <<"int", 1>>>>,
   <<0, CellHeight, <<>>, <<"1">>, 0, "", FALSE, NoLink>>}

LinkArgs == {<<"int", 1>>, <<"uri", "u">>}

HookArgs == {"box"}

SetterNames ==
  {"SetX", "SetY", "SetXY", "Ln", "SetMargins", "SetAutoPageBreak", "SetFont", "SetFontSize",
   "SetTextColor", "SetFillColor", "SetDrawColor", "SetLineWidth", "Link", "Cell",
   "SetTitle", "SetAuthor"}

DoSetX == Do("SetX", <<LinkBox>>, SetX(Begin(p), LinkBox))

DoSetFontSize == Do("SetFontSize", <<16>>, SetFontSize(Begin(p), 16))

DoSetTitle == Do("SetTitle", <<"t">>, SetTitle(Begin(p), "t"))

Next ==
  \/ DoReset
  \/ DoSetHeaderFunc(HookArgs)
  \/ DoSetFooterFunc(HookArgs)
  \/ DoAddPage(PageArgs)
  \/ DoSetFont(FontArgs)
  \/ DoSetFontSize
  \/ DoSetX
  \/ DoSetTitle
  \/ DoCell(CellArgs)
  \/ DoLink(LinkArgs)
  \/ DoLine
  \/ DoClose
  \/ DoOutput

Spec == Init /\ [][Next]_vars

(***************************************************************************)
(* What a claim calls the document state: the struct without the history.  *)
(***************************************************************************)
Core(d) == [f \in (DOMAIN d) \ {"err", "log", "hooks"} |-> d[f]]

Events(d, ev) == SelectSeq(d.log, LAMBDA e : e.ev = ev)

\* the indices of the buffer lines "N 0 obj"
ObjLines(buf, N) == {i \in 1..Len(buf) : buf[i].t = "obj" /\ buf[i].a[1] = N}

\* the byte position at which line i of the buffer begins
StartOf(buf, i) == SumLen(SubSeq(buf, 1, i - 1))

XrefAt(buf) == CHOOSE i \in 1..Len(buf) : buf[i].t = "xref"

\* the offset the cross-reference table gives for object N
XrefOffset(buf, N) == buf[XrefAt(buf) + 2 + N].a[1]

\* the numbers of the objects emitted with /Type /Page
PageObjs(buf) ==
  {buf[i].a[1] : i \in {j \in 1..(Len(buf) - 1) : buf[j].t = "obj" /\ buf[j + 1].t = "/Type /Page"}}

(***************************************************************************)
(* C1.  After Close, for every object number N from 1 to the final object  *)
(* count, the offset the cross-reference table gives for N is the byte     *)
(* position at which the line "N 0 obj" begins, and N is emitted as an     *)
(* object exactly once; no object carries a number outside 1..n.           *)
(***************************************************************************)
C1_XrefOffsetsExact ==
  p.state = 3 =>
    /\ \A N \in 1..p.n :
         /\ Cardinality(ObjLines(p.buffer, N)) = 1
         /\ \A i \in ObjLines(p.buffer, N) :
                       /\ XrefOffset(p.buffer, N) = StartOf(p.buffer, i)
                       /\ p.buffer[XrefAt(p.buffer) + 2 + N].t = "xrefentry"
    /\ \A i \in 1..Len(p.buffer) : p.buffer[i].t = "obj" => p.buffer[i].a[1] \in 1..p.n

C1_Witness ==
  /\ p.state = 3
  /\ p.n >= 8
  /\ \E i \in 1..Len(p.buffer) : p.buffer[i].t = "/Dest"
  /\ \E i \in 1..Len(p.buffer) : p.buffer[i].t = "/ToUnicode"

(***************************************************************************)
(* C2.  Every /Dest entry written for an internal link names the object    *)
(* number of a page dictionary object of the document, never 0.            *)
(***************************************************************************)
C2_DestIsPageObject ==
  p.state = 3 =>
    \A i \in 1..Len(p.buffer) :
      p.buffer[i].t = "/Dest" => p.buffer[i].a[1] \in PageObjs(p.buffer)

C2_Witness ==
  /\ p.state = 3
  /\ \E i \in 1..Len(p.buffer) : p.buffer[i].t = "/Dest" /\ p.buffer[i].a[1] = 0

(***************************************************************************)
(* C3.  An operator is only appended to the page that is open: the buffer  *)
(* of a page that was already closed before a call is unchanged by it, and *)
(* the buffer of the open page only grows.  An emission before the first   *)
(* AddPage or on a finalized document fails with the state error and       *)
(* leaves every page buffer unchanged; AddPage on a finalized document     *)
(* fails with the state error and adds no page.                            *)
(***************************************************************************)
IsPrefix(s, t) == Len(s) <= Len(t) /\ SubSeq(t, 1, Len(s)) = s

C3_Step ==
  /\ call'.op # "Reset" =>
       /\ Len(p'.pages) >= Len(p.pages)
       /\ \A i \in 1..Len(p.pages) :
            IF i < p.page \/ p.state # 2
            THEN p'.pages[i] = p.pages[i]
            ELSE IsPrefix(p.pages[i], p'.pages[i])
  /\ (call'.op = "Line" /\ p.state = 0) =>
       p'.err = "no page has been added yet" /\ p'.pages = p.pages
  /\ (call'.op = "Line" /\ p.state = 3) =>
       p'.err = "the document is closed" /\ p'.pages = p.pages
  /\ (call'.op # "Reset" /\ p.state = 3) => p'.pages = p.pages
  /\ (call'.op = "AddPage" /\ p.state = 3) =>
       p'.err = "the document is closed" /\ p'.page = p.page /\ p'.pages = p.pages

C3_OutOnlyOnOpenPage == [][C3_Step]_vars

C3_Witness ==
  /\ call.op = "Line"
  /\ call.pre = 3
  /\ p.page >= 2
  /\ p.err = "the document is closed"

(***************************************************************************)
(* C4.  Once the document is finalized, none of the setters, Link or Cell  *)
(* changes any part of the document state.                                 *)
(***************************************************************************)
C4_Step == (p.state = 3 /\ call'.op \in SetterNames) => Core(p') = Core(p)

C4_FinalizedIsTerminal == [][C4_Step]_vars

(***************************************************************************)
(* C5.  Close (and Output, which closes) on a live document leaves at      *)
(* least one page, runs Footer once, and serializes; on a finalized        *)
(* document it invokes no hook and changes nothing, and two Output calls   *)
(* in a row return the same bytes.                                         *)
(***************************************************************************)
C5_Step ==
  /\ (call'.op \in {"Close", "Output"} /\ p.state # 3) =>
       /\ p'.state = 3
       /\ p'.page = (IF p.page = 0 THEN 1 ELSE p.page)
       /\ Len(Events(p', "Footer")) = 1
       /\ Events(p', "Footer")[1].page = p'.page
       /\ Len(Events(p', "Header")) = (IF p.page = 0 THEN 1 ELSE 0)
       /\ p'.buffer # <<>>
       /\ p'.buffer[Len(p'.buffer)].t = "%%EOF"
  /\ (call'.op \in {"Close", "Output"} /\ p.state = 3) =>
       /\ Core(p') = Core(p)
       /\ p'.log = <<>>
       /\ p'.err = ""
  /\ (call'.op = "Output" /\ p.state = 3) => ret' = p.buffer
  /\ (call'.op = "Output" /\ call.op = "Output") => ret' = ret

C5_CloseIdempotent == [][C5_Step]_vars

C5_Witness ==
  /\ call.op = "Output"
  /\ call.pre = 3
  /\ p.state = 3
  /\ ret = p.buffer
  /\ p.headerFunc # "nil"
  /\ p.footerFunc # "nil"

(***************************************************************************)
(* The layout client: it may install a header hook, opens a page, selects  *)
(* a font, may move the cursor next to the bottom margin, and lays out one *)
(* text with MultiCell or draws one Cell.                                  *)
(***************************************************************************)
MaxTextLen == 3

TextChars == {"a", " ", "\n"}

ShortTexts == UNION {[1..len -> TextChars] : len \in 0..MaxTextLen}

TextThreeWords == <<"a", "a", "a", "a", " ", "b", "b", "b", "b", " ", "c", "c", "c", "c">>

TextStaleSpacing == <<"a", " ", "a", " ", "a", "a", "a", " ", "b">>

LongTexts ==
  {TextThreeWords, TextStaleSpacing, <<"a", " ", "a", " ", "a">>,
   <<"a", "a", "a", "a", "a", "a", "a">>, <<"a", "\r", "\n", "b", "\n">>}

\* budgets for Courier at 12 pt (7200 a character): negative, 1.5, 4.5 characters
WidthNegative == 1000

WidthNarrow == 16470

WidthWords == 38070

TextWidths == {0, WidthNegative, WidthNarrow, WidthWords}

NearBottom == 780000

TallCell == 800000

MultiCellArgs ==
  {<<w, h, t, b, al, FALSE>> :
     w \in TextWidths, h \in {CellHeight, TallCell}, t \in ShortTexts \cup LongTexts,
     b \in {<<>>, <<"1">>}, al \in {"L", "J"}}

TextCellArgs ==
  {<<w, h, t, b, ln, "L", FALSE, NoLink>> :
     w \in {0, WidthWords}, h \in {CellHeight, TallCell}, t \in {<<>>, <<"a">>},
     b \in {<<>>, <<"1">>}, ln \in {0, 1, 2}}

\* the hook is installed before the first page or once a font is selected
TextSetHeaderFunc == call.op \in {"NewFpdf", "SetFont"} /\ DoSetHeaderFunc({"move"})

TextAddPage == p.page = 0 /\ DoAddPage({<<"", "", 0>>})

TextSetFont ==
  /\ call.op = "AddPage"
  /\ DoSetFont({<<"Courier", "", 12>>, <<"Arial", "", 16>>})

DoSetXY(Args) == \E a \in Args : Do("SetXY", a, SetXY(Begin(p), a[1], a[2]))

TextSetXY ==
  /\ call.op = "SetFont"
  /\ DoSetXY({<<DefaultMargin, NearBottom>>, <<HookX + HookX, NearBottom>>})

Ready ==
  \/ call.op \in {"SetFont", "SetXY"}
  \/ call.op = "SetHeaderFunc" /\ p.page > 0

TextMultiCell == Ready /\ DoMultiCell(MultiCellArgs)

TextCell == (Ready \/ call.op = "AddPage") /\ DoCell(TextCellArgs)

NextText ==
  \/ TextSetHeaderFunc
  \/ TextAddPage
  \/ TextSetFont
  \/ TextSetXY
  \/ TextMultiCell
  \/ TextCell

SpecText == Init /\ [][NextText]_vars

\* the Cell calls of the last operation that were not made by a hook
Cells == SelectSeq(p.log, LAMBDA e : e.ev = "Cell" /\ ~e.a.inHook)

Lines == Events(p, "Line")

(***************************************************************************)
(* C6.  With auto page break on and outside the hooks, a Cell for which    *)
(* cursorY + height exceeds pageHeight - bottomMargin adds exactly one     *)
(* page before it draws: its operator lands on the new page, at the        *)
(* horizontal cursor of before the call, with the word spacing of before   *)
(* the call; a Cell that does not exceed the trigger adds no page.         *)
(***************************************************************************)
CellBreaks(c) == c.over /\ c.auto

C6_PageBreakBeforeCell ==
  (call.op \in {"Cell", "MultiCell"} /\ call.pre # 3) =>
    /\ \A k \in 1..Len(Cells) :
         LET e == Cells[k]
             c == e.a
         IN /\ e.page = c.page0 + (IF CellBreaks(c) THEN 1 ELSE 0)
            /\ c.x = c.x0
            /\ c.ws = c.ws0
            /\ c.page0 = (IF k = 1 THEN call.page ELSE Cells[k - 1].page)
            /\ k = Len(Cells) => p.page = e.page
            /\ (c.emits /\ p.err = "") =>
                 /\ c.pos <= Len(p.pages[e.page])
                 /\ p.pages[e.page][c.pos].op = "Cell"
                 /\ p.pages[e.page][c.pos].a[3] = c.txt
                 /\ p.pages[e.page][c.pos].a[4] = c.x0
    /\ call.op = "Cell" =>
         /\ p.page = call.page + (IF call.auto /\ call.y + call.a[2] > call.trig THEN 1 ELSE 0)
         /\ p.err = "" => (Len(Cells) = 1 /\ Cells[1].a.x0 = call.x)

C6_Witness ==
  /\ call.op = "MultiCell"
  /\ p.err = ""
  /\ p.headerFunc = "move"
  /\ \E k \in 1..Len(Cells) :
       /\ CellBreaks(Cells[k].a)
       /\ Cells[k].a.ws0.num > 0
       /\ Cells[k].a.emits
       /\ Cells[k].a.x # HookX
       /\ Cells[k].page = call.page + 1

(***************************************************************************)
(* C7.  Every line MultiCell emits measures at most width - 2*cMargin,     *)
(* except a forced single character.                                       *)
(***************************************************************************)
LineFits(e) == GetStringWidth(p, e.a[2]) <= e.a[3] - 2 * p.cMargin

ForcedSingle(e) == e.a[1] = "forced" /\ Len(e.a[2]) = 1

C7_Original ==
  (call.op = "MultiCell" /\ p.err = "") =>
    \A k \in 1..Len(Lines) : LineFits(Lines[k]) \/ ForcedSingle(Lines[k])

(***************************************************************************)
(* C7 as amended.  Every non-empty line MultiCell emits measures at most   *)
(* width - 2*cMargin, except a forced single character; an empty line is   *)
(* emitted whatever the budget, a negative one included.                   *)
(***************************************************************************)
C7_LineWithinBudget ==
  (call.op = "MultiCell" /\ p.err = "") =>
    \A k \in 1..Len(Lines) :
      Lines[k].a[2] = <<>> \/ LineFits(Lines[k]) \/ ForcedSingle(Lines[k])

C7_Witness ==
  /\ call.op = "MultiCell"
  /\ p.err = ""
  /\ Len(Lines) >= 3
  /\ \E k \in 1..Len(Lines) : ForcedSingle(Lines[k]) /\ ~LineFits(Lines[k])
  /\ \E k \in 1..Len(Lines) : Lines[k].a[2] = <<>> /\ ~LineFits(Lines[k])

(***************************************************************************)
(* C8.  A MultiCell call that breaks its text k times makes k+1 Cell       *)
(* calls, all with ln = 2, and the line texts in order, each followed by   *)
(* the one separator its break consumed (a space, a newline, or nothing at *)
(* a forced break), give back the input without carriage returns and       *)
(* without one trailing newline.  "aaaa bbbb cccc" in three lines is       *)
(* aaaa, bbbb, cccc.                                                       *)
(***************************************************************************)
Consumed(kind) ==
  CASE kind = "sep" -> <<" ">>
    [] kind = "nl" -> <<"\n">>
    [] OTHER -> <<>>

RECURSIVE Rebuild(_)
Rebuild(ls) ==
  IF ls = <<>> THEN <<>>
  ELSE Head(ls).a[2] \o Consumed(Head(ls).a[1]) \o Rebuild(Tail(ls))

Scanned(txt) ==
  LET s == StripCR(txt)
  IN IF s # <<>> /\ s[Len(s)] = "\n" THEN SubSeq(s, 1, Len(s) - 1) ELSE s

C8_LinesReproduceText ==
  (call.op = "MultiCell" /\ p.err = "") =>
    /\ Len(Lines) >= 1
    /\ Len(Cells) = Len(Lines)
    /\ \A k \in 1..Len(Lines) :
         /\ (Lines[k].a[1] = "last") = (k = Len(Lines))
         /\ Cells[k].a.ln = 2
         /\ Cells[k].a.txt = Lines[k].a[2]
    /\ Rebuild(Lines) = Scanned(call.a[3])
    /\ (call.a[3] = TextThreeWords /\ Len(Lines) = 3) =>
         [k \in 1..3 |-> Lines[k].a[2]] = <<<<"a", "a", "a", "a">>, <<"b", "b", "b", "b">>, <<"c", "c", "c", "c">>>>

C8_Witness ==
  /\ call.op = "MultiCell"
  /\ p.err = ""
  /\ call.a[3] = TextThreeWords
  /\ Len(Cells) = 3

(***************************************************************************)
(* C9.  In MultiCell with align "J", a line broken at a separator with     *)
(* S >= 1 internal spaces is drawn with the word spacing p for which       *)
(* lineStringWidth + S*p = width - 2*cMargin; every other line is drawn    *)
(* with word spacing 0, and word spacing is 0 when MultiCell returns.      *)
(***************************************************************************)
Justified(e, ws) ==
  GetStringWidth(p, e.a[2]) * ws.den + Count(e.a[2], " ") * ws.num
    = (e.a[3] - 2 * p.cMargin) * ws.den

C9_JustifiedSpacing ==
  (call.op = "MultiCell" /\ call.a[5] = "J" /\ p.err = "") =>
    /\ p.ws.num = 0
    /\ \A k \in 1..Len(Lines) :
         IF Lines[k].a[1] = "sep" /\ Count(Lines[k].a[2], " ") >= 1
         THEN Justified(Lines[k], Cells[k].a.ws)
         ELSE Cells[k].a.ws.num = 0

C9_Witness ==
  /\ call.op = "MultiCell"
  /\ call.a[5] = "J"
  /\ p.err = ""
  /\ \E k \in 1..Len(Lines) :
       /\ Lines[k].a[1] = "sep"
       /\ Count(Lines[k].a[2], " ") = 0
       /\ Cells[k].a.ws.num > 0

(***************************************************************************)
(* The README client: a page, a core font, the "Hello World!" cell, and    *)
(* Output, with the font drawn from the 14 standard fonts and the alias.   *)
(***************************************************************************)
ReadmeFontSize == 16

\* Cell(40, 10, ...) with unit "mm"
ReadmeCellWidth == 113386

ReadmeCellHeight == 28346

HelloWorld == <<"H", "e", "l", "l", "o", " ", "W", "o", "r", "l", "d", "!">>

StandardFonts ==
  ({"Courier", "Helvetica", "Arial", "Times"} \X {"", "B", "I", "BI"})
    \cup ({"Symbol", "ZapfDingbats"} \X {""})

StandardFontArgs == {<<f[1], f[2], ReadmeFontSize>> : f \in StandardFonts}

ReadmeCellArgs ==
  {<<ReadmeCellWidth, ReadmeCellHeight, HelloWorld, <<"1">>, 0, "C", FALSE, NoLink>>}

FontsAddPage == DoAddPage({<<"", "", 0>>})

FontsSetFont == DoSetFont(StandardFontArgs)

FontsCell == DoCell(ReadmeCellArgs)

FontsOutput == DoOutput

NextFonts ==
  \/ FontsAddPage
  \/ FontsSetFont
  \/ FontsCell
  \/ FontsOutput

SpecFonts == Init /\ [][NextFonts]_vars

(***************************************************************************)
(* C10.  SetFont with any of the 14 standard core fonts (or the alias      *)
(* arial) succeeds: the font is registered and selected; no call of the    *)
(* README sequence fails for want of a font definition.                    *)
(***************************************************************************)
FontFailure == "could not load embedded font definition"

C10_CoreFontsSelectable ==
  /\ p.err # FontFailure
  /\ call.op = "SetFont" =>
       /\ p.err = ""
       /\ Has(p.fonts, <<p.fontFamily, p.fontStyle>>)
       /\ p.currentFont = p.fonts[<<p.fontFamily, p.fontStyle>>]
       /\ p.fontSizePt = call.a[3]

C10_Witness ==
  /\ call.op = "SetFont"
  /\ call.a = <<"Arial", "B", ReadmeFontSize>>
  /\ call.page = 1
  /\ p.err = FontFailure

(***************************************************************************)
(* Configuration tokens: Reset and AddPage called with units and page      *)
(* sizes the library knows and with ones it does not.                      *)
(***************************************************************************)
ConfigResetArgs ==
  {<<o, u, s>> : o \in {"P", "L"}, u \in {"pt", "mm", "furlong"}, s \in {"A4", "Letter", "B5"}}

ConfigPageArgs == {<<"", "", 0>>, <<"L", "A5", 0>>, <<"", "B5", 0>>, <<"L", "B5", 90>>}

ConfigReset ==
  \E a \in ConfigResetArgs : Do("Reset", a, Reset(Begin(p), a[1], a[2], a[3]))

ConfigAddPage == DoAddPage(ConfigPageArgs)

ConfigFontArgs == FontArgs \cup {<<"Comic", "U", 12>>, <<"Times", "BU", 12>>}

ConfigSetFont == DoSetFont(ConfigFontArgs)

ConfigCell == DoCell(CellArgs)

NextConfig ==
  \/ ConfigReset
  \/ ConfigAddPage
  \/ ConfigSetFont
  \/ ConfigCell

SpecConfig == Init /\ [][NextConfig]_vars

KnownUnit(u) == ToLower(u) \in {"pt", "mm", "cm", "in"}

KnownSize(s) == ToLower(s) \in (DOMAIN stdPageSizes) \cup {""}

BadConfig ==
  \/ call.op = "Reset" /\ (~KnownUnit(call.a[2]) \/ ~KnownSize(call.a[3]))
  \/ call.op = "AddPage" /\ ~KnownSize(call.a[2])

\* C11: a Reset with an unrecognized unit or page size, and an AddPage with an
\* unrecognized page size, ends with an error the caller can observe (the call
\* panicked or the document holds an error message).
C11_ConfigErrorObservable == BadConfig => (p.err # "" \/ p.lastError # "")

\* a Reset with an unknown unit went on in millimetres on the page size asked for
C11_Witness ==
  /\ call.op = "Reset" /\ ~KnownUnit(call.a[2]) /\ KnownSize(call.a[3])
  /\ p.err = "" /\ p.lastError = "" /\ p.k = "mm"
  /\ p.defPageSize = stdPageSizes[ToLower(call.a[3])]

\* C12: a call on a live document that fails validation leaves the document as
\* it was before the call (fonts, flags, pages, links, operators and cursor).
C12_Step == (p.state # 3 /\ p'.err # "") => Core(p') = Core(p)

C12_FailedCallCommitsNothing == [][C12_Step]_vars

\* a SetFont that failed for an undefined family has switched underlining on
C12_Witness ==
  /\ call.op = "SetFont" /\ call.a[1] = "Comic"
  /\ p.err # "" /\ p.underline /\ p.fontFamily = "" /\ p.currentFont = NoFont

(***************************************************************************)
(* Object numbers in the order of emission.                                *)
(***************************************************************************)
ObjIdx(buf) == {i \in 1..Len(buf) : buf[i].t = "obj"}

\* what the object whose framing line is line i holds; streams are content
\* streams and text-extraction maps alike
ObjKind(buf, i) ==
  CASE buf[i + 1].t = "/Type /Page" -> "page"
    [] buf[i + 1].t = "<</Length" -> "stream"
    [] buf[i + 1].t \in {"/A /URI", "/Dest"} -> "annot"
    [] buf[i + 1].t = "/Type /Pages" -> "root"
    [] buf[i + 1].t = "/Type /Font" -> "font"
    [] buf[i + 1].t = "/Type /XObject" -> "image"
    [] buf[i + 1].t = "<<" /\ buf[i + 2].t = "/ProcSet" -> "resources"
    [] buf[i + 1].t = "<<" /\ buf[i + 2].t = "/Info" -> "info"
    [] OTHER -> "catalog"

\* the place of a kind in the traversal
Phase(kind) ==
  CASE kind \in {"page", "annot"} -> 1
    [] kind = "root" -> 2
    [] kind = "font" -> 3
    [] kind = "image" -> 4
    [] kind = "resources" -> 5
    [] kind = "info" -> 6
    [] OTHER -> 7

\* C13 as stated: an object emitted later in the file carries a larger number
\* than every object emitted before it.
C13_Original ==
  p.state = 3 =>
    \A i, j \in ObjIdx(p.buffer) : i < j => p.buffer[i].a[1] < p.buffer[j].a[1]

\* C13: no number is given to two objects; the page tree root is object 1 and
\* the resource dictionary is object 2; every other object carries the next
\* value of a counter that starts at 3, so among those a later object carries
\* a larger number than every earlier one; and objects are emitted in the
\* order pages with their annotations, root, fonts, images, resources, info,
\* catalog.
C13_NumbersUniqueCounterIncreasing ==
  p.state = 3 =>
    \A i, j \in ObjIdx(p.buffer) :
      /\ i # j => p.buffer[i].a[1] # p.buffer[j].a[1]
      /\ (ObjKind(p.buffer, i) = "root") = (p.buffer[i].a[1] = 1)
      /\ (ObjKind(p.buffer, i) = "resources") = (p.buffer[i].a[1] = 2)
      /\ (i < j /\ p.buffer[i].a[1] > 2 /\ p.buffer[j].a[1] > 2) =>
           p.buffer[i].a[1] < p.buffer[j].a[1]
      /\ (i < j /\ ObjKind(p.buffer, i) # "stream" /\ ObjKind(p.buffer, j) # "stream") =>
           Phase(ObjKind(p.buffer, i)) <= Phase(ObjKind(p.buffer, j))

\* a finalized document with a page, an annotation and a font
C13_Witness ==
  /\ p.state = 3
  /\ \E i \in ObjIdx(p.buffer) : ObjKind(p.buffer, i) = "annot"
  /\ \E i \in ObjIdx(p.buffer) : ObjKind(p.buffer, i) = "font"
  /\ \E i, j \in ObjIdx(p.buffer) :
       i < j /\ p.buffer[j].a[1] = 1 /\ p.buffer[i].a[1] > 2

\* the lines of the buffer of type t
LinesOf(buf, t) == {i \in 1..Len(buf) : buf[i].t = t}

\* C14: a Close or Output that returns leaves the document finalized, and the
\* bytes of a finalized document start with the version header line and end
\* with "startxref", the byte offset at which the "xref" line begins and the
\* end-of-file marker; the cross-reference section declares n + 1 entries and
\* holds them, n being the final object count.
C14_OutputFramed ==
  /\ (call.op \in {"Close", "Output"} /\ p.err = "") => p.state = 3
  /\ p.state = 3 =>
       /\ LinesOf(p.buffer, "%PDF-") = {1}
       /\ LinesOf(p.buffer, "%%EOF") = {Len(p.buffer)}
       /\ LinesOf(p.buffer, "startxref") = {Len(p.buffer) - 2}
       /\ Cardinality(LinesOf(p.buffer, "xref")) = 1
       /\ p.buffer[Len(p.buffer) - 1].t = "offset"
       /\ p.buffer[Len(p.buffer) - 1].a[1] = StartOf(p.buffer, XrefAt(p.buffer))
       /\ p.buffer[XrefAt(p.buffer) + 1].t = "0 n"
       /\ p.buffer[XrefAt(p.buffer) + 1].a[1] = p.n + 1
       /\ p.buffer[XrefAt(p.buffer) + 2].t = "free"
       /\ LinesOf(p.buffer, "xrefentry") =
            (XrefAt(p.buffer) + 3)..(XrefAt(p.buffer) + 2 + p.n)
       /\ p.buffer[XrefAt(p.buffer) + 3 + p.n].t = "trailer"

\* Close as the only operation: it added the page itself and finalized
C14_Witness ==
  /\ call.op = "Close" /\ call.pre = 0 /\ call.page = 0
  /\ p.state = 3 /\ p.page = 1 /\ p.err = ""
  /\ Len(p.buffer) > 20

(***************************************************************************)
(* Measuring and flowing text: GetStringWidth and Write on a page, at the  *)
(* left margin, in a narrow column at the right margin and near the bottom *)
(* of the page, in a small font, in one of which two characters fill a     *)
(* line, and in one of which no character fits a line.                     *)
(***************************************************************************)
WriteColumnX == 550460

FontTwoPerLine == 400

FontNonePerLine == 890

WriteFontArgs ==
  {<<"Courier", "", 12>>, <<"Arial", "", FontTwoPerLine>>, <<"Courier", "", FontNonePerLine>>}

WriteTexts == ShortTexts \cup {<<"a", " ", "a", " ", "a">>, <<"a", "\r", "\n", "a">>}

WriteArgs == {<<CellHeight, t, NoLink>> : t \in WriteTexts}

DoWrite(Args) == \E a \in Args : Do("Write", a, Write(Begin(p), a[1], a[2], a[3]))

DoGetStringWidth(Texts) ==
  \E t \in Texts :
    /\ nops < MaxOps
    /\ p' = Begin(p)
    /\ call' = Called("GetStringWidth", <<t>>)
    /\ nops' = nops + 1
    /\ ret' = <<GetStringWidth(Begin(p), t)>>
    /\ scan' = scan
    /\ tick' = tick

WriteAddPage == p.page = 0 /\ DoAddPage({<<"", "", 0>>})

WriteSetFont == call.op \in {"NewFpdf", "AddPage"} /\ DoSetFont(WriteFontArgs)

WriteSetXY ==
  /\ call.op = "SetFont" /\ p.page > 0
  /\ DoSetXY({<<DefaultMargin, NearBottom>>, <<WriteColumnX, DefaultMargin>>})

\* a second Write continues the line a short first one began
WriteWrite ==
  /\ \/ call.op \in {"AddPage", "SetFont", "SetXY"}
     \/ call.op = "Write" /\ Len(call.a[2]) <= 1
  /\ DoWrite(WriteArgs)

WriteGetStringWidth == call.op \in {"NewFpdf", "SetFont", "Write"} /\ DoGetStringWidth(ShortTexts)

NextWrite ==
  \/ WriteAddPage
  \/ WriteSetFont
  \/ WriteSetXY
  \/ WriteWrite
  \/ WriteGetStringWidth

SpecWrite == Init /\ [][NextWrite]_vars

RECURSIVE SumCharWidth(_, _)
SumCharWidth(d, s) ==
  IF s = <<>> THEN 0 ELSE charWidth(d, Head(s)) + SumCharWidth(d, Tail(s))

\* C15: GetStringWidth(text) is the sum over the characters of the text of the
\* width the scan of Write and MultiCell counts for the character (the advance
\* width, that of '?' for a zero one), times fontSize / 1000; and the width of
\* the Cell that Write emits for its trailing remainder is that measure of it.
C15_StringWidthIsCharWidthSum ==
  /\ call.op = "GetStringWidth" =>
       ret = <<(SumCharWidth(p, call.a[1]) * p.fontSize) \div 1000>>
  /\ call.op = "Write" =>
       \A k \in 1..Len(Cells) :
         Cells[k].a.ln = 0 =>
           /\ Cells[k].a.w = GetStringWidth(p, Cells[k].a.txt)
           /\ Cells[k].a.w = (SumCharWidth(p, Cells[k].a.txt) * p.fontSize) \div 1000

\* a text of three characters was measured in a selected font
C15_Witness ==
  /\ call.op = "GetStringWidth" /\ Len(call.a[1]) = MaxTextLen
  /\ p.currentFont # NoFont
  /\ ret = <<3 * p.currentFont.cw["a"] * p.fontSizePt>>

(***************************************************************************)
(* The trailing remainder of Write.                                        *)
(***************************************************************************)
\* the text of the Write call, carriage returns removed
Written == StripCR(call.a[2])

LastCell == Cells[Len(Cells)].a

IsSuffix(s, t) == Len(s) <= Len(t) /\ SubSeq(t, Len(t) - Len(s) + 1, Len(t)) = s

\* a Write that returned, for a text that does not end in a newline
WriteReturned ==
  /\ call.op = "Write" /\ p.err = ""
  /\ Written # <<>> /\ Written[Len(Written)] # "\n"

\* the whole text is one line within the width left of the cursor
FitsRemaining ==
  /\ ~Contains(Written, "\n")
  /\ SumCharWidth(p, Written)
       <= ((p.w - p.rMargin - call.x - 2 * p.cMargin) * 1000) \div p.fontSize

\* the last Cell is the remainder, drawn without line break at its own width
RemainderEmitted ==
  /\ Cells # <<>>
  /\ LastCell.ln = 0
  /\ LastCell.txt # <<>> /\ IsSuffix(LastCell.txt, Written)
  /\ LastCell.w = GetStringWidth(p, LastCell.txt)
  /\ p.x = LastCell.x + LastCell.w
  /\ p.y = LastCell.y

\* no remainder is left: the last character, wider than a whole line, went out
\* as a line of its own, or it is the space at which the last line was broken
RemainderEmpty ==
  /\ Cells # <<>>
  /\ LastCell.ln = 2
  /\ \/ /\ LastCell.txt = <<Written[Len(Written)]>>
        /\ Overflows(p, charWidth(p, Written[Len(Written)]), LastCell.w)
     \/ /\ Written[Len(Written)] = " "
        /\ IsSuffix(LastCell.txt \o <<" ">>, Written)
        /\ Overflows(p, SumCharWidth(p, LastCell.txt \o <<" ">>), LastCell.w)

\* C16 as stated: the remainder is emitted as a Cell without line break at its
\* measured width, and a text that fits advances x by its width and leaves y.
C16_Original ==
  WriteReturned =>
    /\ RemainderEmitted
    /\ FitsRemaining => (p.x = call.x + GetStringWidth(p, Written) /\ p.y = call.y)

\* C16: when Write returns for a text that does not end in a newline, then,
\* unless the scan ended right after a line break (the last character alone is
\* wider than the line, or is the space at which the last line was broken),
\* the remainder has been emitted as one Cell without line break at its
\* measured width, x is the x of that Cell plus the width and y is the y of
\* that Cell; a text that fits in the remaining width advances x by its
\* measured width and leaves y unchanged, unless the Cell broke the page.
C16_RemainderContinuesLine ==
  WriteReturned =>
    /\ RemainderEmitted \/ RemainderEmpty
    /\ FitsRemaining =>
         /\ Len(Cells) = 1
         /\ p.x = call.x + GetStringWidth(p, Written)
         /\ IF call.auto /\ call.y + call.a[1] > call.trig
            THEN p.page = call.page + 1
            ELSE p.page = call.page /\ p.y = call.y

\* a Write broke its text at a space and left the remainder on the next line
C16_Witness ==
  /\ WriteReturned
  /\ Len(Cells) = 2
  /\ Cells[1].a.ln = 2
  /\ RemainderEmitted
  /\ LastCell.x = p.lMargin
  /\ p.y = call.y + call.a[1]
  /\ Len(LastCell.txt) < Len(Written)

(***************************************************************************)
(* Serialization of documents with pages, links, fonts and images: the     *)
(* client selects fonts, adds pages, places images and links, and closes.  *)
(***************************************************************************)
MaxPassOps == 6

MaxPages == 2

ImageArgs ==
  {<<"a.png", NaN, NaN, 0, 0, "", NoLink>>,
   <<"b.jpg", LinkBox, LinkBox, LinkBox, 0, "", <<"uri", "u">>>>,
   <<"gone.png", NaN, NaN, 0, 0, "", NoLink>>,
   <<"c.bmp", LinkBox, LinkBox, LinkBox, LinkBox, "", NoLink>>}

PassSetFont ==
  /\ nops < MaxPassOps
  /\ call.op \in {"NewFpdf", "SetFont"}
  /\ \E a \in FontArgs : Apply("SetFont", a, SetFont(Begin(p), a[1], a[2], a[3]))

PassAddPage ==
  /\ nops < MaxPassOps
  /\ p.page < MaxPages
  /\ p.state < 3
  /\ Apply("AddPage", <<"", "", 0>>, AddPage(Begin(p), "", "", 0))

PassImage ==
  /\ nops < MaxPassOps
  /\ call.op \in {"AddPage", "Image"}
  /\ \E a \in ImageArgs :
       Apply("Image", a, Image(Begin(p), a[1], a[2], a[3], a[4], a[5], a[6], a[7]))

PassLink ==
  /\ nops < MaxPassOps
  /\ call.op \in {"AddPage", "Image", "Link"}
  /\ \E l \in LinkArgs :
       Apply("Link", <<l>>, Link(Begin(p), LinkBox, LinkBox, LinkBox, LinkBox, l))

PassClose ==
  /\ nops < MaxPassOps
  /\ p.state < 3
  /\ \E order \in Orders(p), order2 \in Orders(p) :
       Apply("Close", <<>>, Close(Begin(p), 1, order, order2))

NextPass ==
  \/ PassSetFont
  \/ PassAddPage
  \/ PassImage
  \/ PassLink
  \/ PassClose

SpecPass == Init /\ [][NextPass]_vars

\* the framing lines of the page dictionaries
PageIdx(buf) == {i \in ObjIdx(buf) : ObjKind(buf, i) = "page"}

\* the page whose dictionary is framed at line i: its rank among them
PageRank(buf, i) == Cardinality({j \in PageIdx(buf) : j <= i})

\* the first line of type t after line i
NextOf(buf, i, t) == CHOOSE j \in (i + 1)..Len(buf) :
                       buf[j].t = t /\ \A m \in (i + 1)..(j - 1) : buf[m].t # t

\* what the object numbered N holds, "none" if no object carries N
KindOfNum(buf, N) ==
  IF ObjLines(buf, N) = {} THEN "none"
  ELSE ObjKind(buf, CHOOSE i \in ObjLines(buf, N) : TRUE)

\* the /Annots array of the page dictionary framed at line i
AnnotsOf(buf, i) ==
  IF \E m \in i..NextOf(buf, i, "endobj") : buf[m].t = "/Annots"
  THEN buf[NextOf(buf, i, "/Annots")].a
  ELSE <<>>

\* the annotation object numbered N is emitted after the page dictionary at
\* line i and before the next page dictionary, for the link lnk
AnnotFor(buf, i, N, lnk) ==
  \E j \in ObjLines(buf, N) :
    /\ j > i
    /\ \A m \in PageIdx(buf) : m <= i \/ m > j
    /\ IF lnk[1] = "uri"
       THEN buf[j + 1].t = "/A /URI" /\ buf[j + 1].a = <<lnk[2]>>
       ELSE buf[j + 1].t = "/Dest"

\* the call that just returned serialized the document
Serialized == p.state = 3 /\ call.op \in {"Close", "Output"} /\ call.pre # 3

\* C17: in the output, /Kids holds one reference per page, in page order,
\* each the number of that page's dictionary object, and /Count is the page
\* count; /Contents of a page is the number of the stream object that holds
\* that page's content; the /Annots entries of a page are the numbers of the
\* annotation objects emitted for the links recorded on that page; every /F
\* and /I entry is the number of the font or image object with that reference
\* index; /Root of the trailer is the catalog and /Info the info object.
C17_ReferencesResolve ==
  Serialized =>
    /\ Cardinality(PageIdx(p.buffer)) = p.page
    /\ \A r \in LinesOf(p.buffer, "/Kids") :
         /\ Len(p.buffer[r].a) = p.page
         /\ p.buffer[r + 1].t = "/Count" /\ p.buffer[r + 1].a = <<p.page>>
         /\ \A i \in PageIdx(p.buffer) :
              p.buffer[r].a[PageRank(p.buffer, i)] = p.buffer[i].a[1]
    /\ \A i \in PageIdx(p.buffer) :
         /\ ObjLines(p.buffer, p.buffer[NextOf(p.buffer, i, "/Contents")].a[1])
              = {NextOf(p.buffer, i, "/Contents") + 2}
         /\ p.buffer[NextOf(p.buffer, i, "/Contents") + 3].t = "<</Length"
         /\ p.buffer[NextOf(p.buffer, i, "/Contents") + 3].a[2]
              = (IF p.compress
                 THEN flateCompress(PageContentLen(p.pages[PageRank(p.buffer, i)]))
                 ELSE PageContentLen(p.pages[PageRank(p.buffer, i)]))
         /\ Len(AnnotsOf(p.buffer, i)) = Len(LinksOf(p, PageRank(p.buffer, i)))
         /\ \A idx \in 1..Len(AnnotsOf(p.buffer, i)) :
              AnnotFor(p.buffer, i, AnnotsOf(p.buffer, i)[idx],
                       LinksOf(p, PageRank(p.buffer, i))[idx].link)
    /\ \A key \in DOMAIN p.fonts :
         \E r \in LinesOf(p.buffer, "/F") :
           /\ p.buffer[r].a = <<p.fonts[key].i, p.fonts[key].n>>
           /\ \A j \in ObjLines(p.buffer, p.fonts[key].n) :
                /\ ObjKind(p.buffer, j) = "font"
                /\ p.buffer[j + 2].a = <<p.fonts[key].name>>
           /\ ObjLines(p.buffer, p.fonts[key].n) # {}
    /\ Cardinality(LinesOf(p.buffer, "/F")) = Cardinality(DOMAIN p.fonts)
    /\ \A key \in DOMAIN p.images :
         \E r \in LinesOf(p.buffer, "/I") :
           /\ p.buffer[r].a = <<p.images[key].i, p.images[key].n>>
           /\ \A j \in ObjLines(p.buffer, p.images[key].n) :
                /\ ObjKind(p.buffer, j) = "image"
                /\ p.buffer[j + 3].a = <<p.images[key].w>>
           /\ ObjLines(p.buffer, p.images[key].n) # {}
    /\ Cardinality(LinesOf(p.buffer, "/I")) = Cardinality(DOMAIN p.images)
    /\ \A r \in LinesOf(p.buffer, "/Root") :
         /\ KindOfNum(p.buffer, p.buffer[r].a[1]) = "catalog"
         /\ p.buffer[r + 1].t = "/Info"
         /\ KindOfNum(p.buffer, p.buffer[r + 1].a[1]) = "info"
    /\ Cardinality(LinesOf(p.buffer, "/Root")) = 1

\* two pages, the second with a link, and an image, serialized
C17_Witness ==
  /\ Serialized
  /\ p.page = 2
  /\ Len(LinksOf(p, 2)) > 0
  /\ DOMAIN p.images # {}
  /\ \E r \in LinesOf(p.buffer, "/I") : p.buffer[r].a[2] > 6

(***************************************************************************)
(* Determinism of serialization in the registries.                         *)
(***************************************************************************)
\* the keys of a registry in registration order (ascending reference index)
ByIndex(reg) == [k \in 1..Cardinality(DOMAIN reg) |-> CHOOSE key \in DOMAIN reg : reg[key].i = k]

Registration(d) == [fonts |-> ByIndex(d.fonts), images |-> ByIndex(d.images)]

\* C18: the bytes a Close or Output produces are those of emitting the font
\* and image objects, and their resource entries, in registration order,
\* whatever the run: the same operations always give the same bytes, the
\* creation timestamp apart.
C18_Step ==
  (call'.op \in {"Close", "Output"} /\ p.state # 3 /\ p'.state = 3) =>
    p'.buffer = Close(Begin(p), 1, Registration(p), Registration(p)).buffer

C18_SerializationDeterministic == [][C18_Step]_vars

\* two fonts were registered and the later one got the smaller object number
C18_Witness ==
  /\ Serialized
  /\ \E k1, k2 \in DOMAIN p.fonts :
       p.fonts[k1].i < p.fonts[k2].i /\ p.fonts[k1].n > p.fonts[k2].n

(***************************************************************************)
(* The client of the page hooks: it installs a header and a footer         *)
(* closure, adds pages, selects a font, draws with Cell, MultiCell, Write  *)
(* and Image at heights that pass the page break trigger, and closes.  The *)
(* closures draw with Cell, MultiCell, Write and Image themselves; those   *)
(* that draw text fail while no font is selected.                          *)
(***************************************************************************)
MaxHookOps == 6

HookHeaders == {"image", "move"}

HookFooters == {"text", "multi", "write"}

HookCellHeights == {CellHeight, TallCell}

HooksSetHeaderFunc ==
  /\ nops < MaxHookOps
  /\ call.op = "NewFpdf"
  /\ \E f \in HookHeaders :
       Apply("SetHeaderFunc", <<f>>, [Begin(p) EXCEPT !.headerFunc = f])

HooksSetFooterFunc ==
  /\ nops < MaxHookOps
  /\ call.op \in {"NewFpdf", "SetHeaderFunc"}
  /\ \E f \in HookFooters :
       Apply("SetFooterFunc", <<f>>, [Begin(p) EXCEPT !.footerFunc = f])

HooksAddPage ==
  /\ nops < MaxHookOps
  /\ p.state < 3
  /\ p.page < MaxPages
  /\ Apply("AddPage", <<"", "", 0>>, AddPage(Begin(p), "", "", 0))

HooksSetFont ==
  /\ nops < MaxHookOps
  /\ p.state < 3
  /\ p.currentFont.typ = "nil"
  /\ Apply("SetFont", <<"Courier", "", 12>>, SetFont(Begin(p), "Courier", "", 12))

HooksCell ==
  /\ nops < MaxHookOps
  /\ p.state = 2
  /\ p.page < MaxPages
  /\ \E h \in HookCellHeights :
       Apply("Cell", <<0, h, <<"a">>, <<>>, 1, "", FALSE, NoLink>>,
             Cell(Begin(p), 0, h, <<"a">>, <<>>, 1, "", FALSE, NoLink))

HooksMultiCell ==
  /\ nops < MaxHookOps
  /\ p.state = 2
  /\ p.page < MaxPages
  /\ Apply("MultiCell", <<0, TallCell, <<"a">>, <<>>, "L", FALSE>>,
           MultiCell(Begin(p), 0, TallCell, <<"a">>, <<>>, "L", FALSE))

HooksWrite ==
  /\ nops < MaxHookOps
  /\ p.state = 2
  /\ p.page < MaxPages
  /\ Apply("Write", <<TallCell, <<"a">>, NoLink>>,
           Write(Begin(p), TallCell, <<"a">>, NoLink))

HooksImage ==
  /\ nops < MaxHookOps
  /\ p.state = 2
  /\ p.page < MaxPages
  /\ Apply("Image", <<"a.png", NaN, NaN, 0, TallCell, "", NoLink>>,
           Image(Begin(p), "a.png", NaN, NaN, 0, TallCell, "", NoLink))

HooksClose ==
  /\ nops < MaxHookOps
  /\ p.state < 3
  /\ \E order \in Orders(p) : Apply("Close", <<>>, Close(Begin(p), 1, order, order))

NextHooks ==
  \/ HooksSetHeaderFunc
  \/ HooksSetFooterFunc
  \/ HooksAddPage
  \/ HooksSetFont
  \/ HooksCell
  \/ HooksMultiCell
  \/ HooksWrite
  \/ HooksImage
  \/ HooksClose

SpecHooks == Init /\ [][NextHooks]_vars

\* the pages that are closed: all of them but the one that is open
ClosedPages == p.page - (IF p.state = 2 THEN 1 ELSE 0)

\* event m of the call is what the Footer invoked at event k does itself
ByFooter(k, m) ==
  /\ \A n \in (k + 1)..(m - 1) : p.log[n].ev # "FooterEnd"
  /\ p.log[m].ev \in {"Cell", "Image"} => p.log[m].a.inHook

\* in the call, Header comes first on the page it opens, after the Footer
\* of the page before
HeaderOpensPage(k) ==
  /\ \A m \in 1..(k - 1) : p.log[m].page < p.log[k].page
  /\ (p.log[k].page > 1) =>
       \E m \in 1..(k - 1) : p.log[m].ev = "FooterEnd" /\ p.log[m].page = p.log[k].page - 1

\* in the call, nothing comes on a page after its Footer but what the
\* Footer itself does
FooterClosesPage(k) ==
  /\ \A m \in (k + 1)..Len(p.log) :
       p.log[m].page = p.log[k].page =>
         p.log[m].ev = "FooterEnd" \/ ByFooter(k, m)
  /\ \A m \in 1..(k - 1) : p.log[m].ev # "Footer" \/ p.log[m].page # p.log[k].page

HooksInOrder ==
  \A k \in 1..Len(p.log) :
    /\ p.log[k].ev = "Header" => HeaderOpensPage(k)
    /\ p.log[k].ev = "Footer" => FooterClosesPage(k)

(***************************************************************************)
(* C19 as stated.  Every page gets exactly one Header invocation, first on *)
(* the page, and every closed page exactly one Footer invocation, last on  *)
(* the page and before the Header of the next page; after Close the        *)
(* numbers of Header invocations, Footer invocations and pages are equal.  *)
(***************************************************************************)
C19_Original ==
  /\ p.hooks.header = p.page
  /\ p.hooks.footer <= p.page
  /\ p.state = 3 => p.hooks.footer = p.page
  /\ HooksInOrder

(***************************************************************************)
(* C19, amended.  Every page gets exactly one Header invocation, first on  *)
(* the page, and every closed page exactly one Footer invocation that      *)
(* returned, last on the page and before the Header of the next page; a    *)
(* Footer invocation that fails leaves the page open, and Footer is        *)
(* invoked for that page again.  After Close the numbers of Header         *)
(* invocations, of Footer invocations that returned and of pages are       *)
(* equal.                                                                  *)
(***************************************************************************)
C19_HooksOncePerPage ==
  /\ p.hooks.header = p.page
  /\ p.hooks.footer - p.hooks.failed = ClosedPages
  /\ HooksInOrder

C19_Witness ==
  /\ p.state = 3
  /\ p.page >= 2
  /\ p.footerFunc # "nil"
  /\ p.hooks.failed >= 1
  /\ p.hooks.header = 2
  /\ p.hooks.footer = 3

\* the events that begin and end an invocation of a hook
HookEvents == {"Header", "HeaderEnd", "Footer", "FooterEnd"}

\* the hook that returns at event m was entered on the same page, and ran
\* no other hook meanwhile
HookKeepsPage(m) ==
  \E k \in 1..(m - 1) :
    /\ p.log[k].ev = (IF p.log[m].ev = "HeaderEnd" THEN "Header" ELSE "Footer")
    /\ p.log[k].page = p.log[m].page
    /\ \A n \in (k + 1)..(m - 1) :
         p.log[n].page = p.log[m].page /\ p.log[n].ev \notin HookEvents

\* no drawing call of a hook adds a page, and a hook returns on the page
\* it was entered on
NoBreakInHook ==
  \A m \in 1..Len(p.log) :
    /\ p.log[m].ev \in {"HeaderEnd", "FooterEnd"} => HookKeepsPage(m)
    /\ (p.log[m].ev \in {"Cell", "Image"} /\ p.log[m].a.inHook) =>
         p.log[m].page = p.log[m].a.page0

\* between the calls of the client no hook executes
HookModesOff == ~p.inHeader /\ ~p.inFooter

(***************************************************************************)
(* C20.  No Cell, MultiCell, Write or Image call made by a hook adds a     *)
(* page: a hook returns on the page it was entered on, also when it runs   *)
(* in a page break that a Cell inside MultiCell or Write triggered; and    *)
(* the in-header and in-footer modes are both off whenever no hook is      *)
(* executing.                                                              *)
(***************************************************************************)
C20_HooksNeverBreakPages == NoBreakInHook /\ HookModesOff

\* a Cell of the client, outside any hook, passes the page break trigger
\* with automatic page breaks on and adds no page, because a mode stayed on
C20_Witness ==
  /\ call.op = "Cell"
  /\ p.err = ""
  /\ call.auto
  /\ call.y + call.a[2] > call.trig
  /\ p.page = call.page
  /\ p.inHeader \/ p.inFooter

(***************************************************************************)
(* The client of the page styles: it installs hooks that select a font,    *)
(* set colours or set the line width and the draw colour, selects a font   *)
(* and a text colour itself, adds pages of the default and of another      *)
(* size, orientation and rotation, and draws at a height that passes the   *)
(* page break trigger of every page size.                                  *)
(***************************************************************************)
MaxPageOps == 5

StyleHooks == {"font", "colors", "style"}

StyleFontArgs == {<<"Helvetica", "", 12>>, <<"Courier", "U", 12>>}

StylePageArgs == {<<"", "", 0>>, <<"", "A5", 0>>, <<"L", "A5", 90>>}

PageSetHeaderFunc ==
  /\ nops < MaxPageOps
  /\ call.op = "NewFpdf"
  /\ \E f \in StyleHooks :
       Apply("SetHeaderFunc", <<f>>, [Begin(p) EXCEPT !.headerFunc = f])

PageSetFooterFunc ==
  /\ nops < MaxPageOps
  /\ call.op \in {"NewFpdf", "SetHeaderFunc"}
  /\ \E f \in StyleHooks :
       Apply("SetFooterFunc", <<f>>, [Begin(p) EXCEPT !.footerFunc = f])

PageSetFont ==
  /\ nops < MaxPageOps
  /\ p.fontFamily = ""
  /\ \E a \in StyleFontArgs :
       Apply("SetFont", a, SetFont(Begin(p), a[1], a[2], a[3]))

PageSetTextColor ==
  /\ nops < MaxPageOps
  /\ call.op # "SetTextColor"
  /\ Apply("SetTextColor", <<"0.753">>, SetTextColor(Begin(p), "0.753"))

PageAddPage ==
  /\ nops < MaxPageOps
  /\ p.page < MaxPages
  /\ \E a \in StylePageArgs :
       Apply("AddPage", a, AddPage(Begin(p), a[1], a[2], a[3]))

PageCell ==
  /\ nops < MaxPageOps
  /\ p.state = 2
  /\ p.page < MaxPages
  /\ Apply("Cell", <<0, TallCell, <<>>, <<"1">>, 1, "", FALSE, NoLink>>,
           Cell(Begin(p), 0, TallCell, <<>>, <<"1">>, 1, "", FALSE, NoLink))

PageMultiCell ==
  /\ nops < MaxPageOps
  /\ p.state = 2
  /\ p.page < MaxPages
  /\ Apply("MultiCell", <<0, TallCell, <<"a">>, <<>>, "L", FALSE>>,
           MultiCell(Begin(p), 0, TallCell, <<"a">>, <<>>, "L", FALSE))

PageWrite ==
  /\ nops < MaxPageOps
  /\ p.state = 2
  /\ p.page < MaxPages
  /\ Apply("Write", <<TallCell, <<"a">>, NoLink>>,
           Write(Begin(p), TallCell, <<"a">>, NoLink))

PageImage ==
  /\ nops < MaxPageOps
  /\ p.state = 2
  /\ p.page < MaxPages
  /\ Apply("Image", <<"a.png", NaN, NaN, 0, TallCell, "", NoLink>>,
           Image(Begin(p), "a.png", NaN, NaN, 0, TallCell, "", NoLink))

NextPage ==
  \/ PageSetHeaderFunc
  \/ PageSetFooterFunc
  \/ PageSetFont
  \/ PageSetTextColor
  \/ PageAddPage
  \/ PageCell
  \/ PageMultiCell
  \/ PageWrite
  \/ PageImage

SpecPage == Init /\ [][NextPage]_vars

\* the graphics state that AddPage saves in its locals
GraphicsState(d) ==
  [family |-> d.fontFamily, style |-> d.fontStyle, underline |-> d.underline,
   size |-> d.fontSizePt, lw |-> d.lineWidth, dc |-> d.drawColor, fc |-> d.fillColor,
   tc |-> d.textColor, cf |-> d.colorFlag]

\* the call that is made added a page and returned
PageAdded == p'.page > p.page /\ p'.err = ""

\* the buffer of page pg selects the font that is current
SelectsFont(d, pg) ==
  \E i \in 1..Len(d.pages[pg]) :
    d.pages[pg][i] = Op("Tf", <<d.currentFont.i, d.fontSizePt>>)

FontReselected ==
  p.fontFamily # "" => \A pg \in (p.page + 1)..p'.page : SelectsFont(p', pg)

(***************************************************************************)
(* C21.  A call that adds a page, by AddPage or by an automatic page       *)
(* break, leaves font family, style, underline, size, line width, draw,    *)
(* fill and text colour and the colour flag as they were, whatever the     *)
(* hooks did; a font selected before is selected in the new page's buffer. *)
(***************************************************************************)
C21_Step ==
  PageAdded => (GraphicsState(p') = GraphicsState(p) /\ FontReselected)

C21_AddPageKeepsGraphicsState == [][C21_Step]_vars

\* AddPage has returned with the font of the header hook selected, and the
\* client had selected none
C21_Witness ==
  /\ nops = 2
  /\ call.op = "AddPage"
  /\ p.err = ""
  /\ p.headerFunc = "font"
  /\ p.fontFamily = "courier"
  /\ p.underline
  /\ p.fontSizePt = HookFontSize

\* the size and rotation override that page pg carries
Override(d, pg) ==
  [f \in (DOMAIN InfoOf(d, pg)) \cap {"size", "rotation"} |-> InfoOf(d, pg)[f]]

\* the call that is made broke the page: a drawing call on an open page
\* added a page
PageBroken ==
  /\ call'.op \in {"Cell", "MultiCell", "Write", "Image"}
  /\ p.page > 0
  /\ p'.page > p.page

(***************************************************************************)
(* C22.  A page created by an automatic page break has the orientation,    *)
(* the page size and the rotation of the page that overflowed, also when   *)
(* that page has a size other than the document default: it gets the same  *)
(* size and rotation override, and the page break trigger is unchanged.    *)
(***************************************************************************)
C22_Step ==
  PageBroken =>
    /\ p'.curOrientation = p.curOrientation
    /\ p'.curPageSize = p.curPageSize
    /\ p'.curRotation = p.curRotation
    /\ p'.pageBreakTrigger = p.pageBreakTrigger
    /\ \A pg \in (p.page + 1)..p'.page : Override(p', pg) = Override(p, p.page)

C22_PageBreakKeepsPageFormat == [][C22_Step]_vars

\* a page of size A5 overflowed and the page after it has the default size
C22_Witness ==
  /\ call.op \in {"Cell", "MultiCell", "Write", "Image"}
  /\ p.err = ""
  /\ p.page = call.page + 1
  /\ call.page > 0
  /\ Has(InfoOf(p, call.page), "size")
  /\ ~Has(InfoOf(p, p.page), "size")
  /\ p.curPageSize = p.defPageSize
  /\ p.pageBreakTrigger # call.trig

(***************************************************************************)
(* MultiCell and Write, iteration by iteration.  The client opens a page,  *)
(* selects a font, places the cursor and calls MultiCell or Write; scan    *)
(* holds the loop variables of the call in progress, each step is one      *)
(* iteration of its for loop, and the last step is the code after the      *)
(* loop.  The loop is sequential code: an iteration that can run, runs.    *)
(* tick is 0 while no call is in progress and alternates between 1 and 2   *)
(* from one step of the call in progress to the next.                      *)
(***************************************************************************)
MaxScanOps == 4

\* a cursor so near the right margin that the width budget is negative
ScanColumnX == 565000

\* a cursor that leaves twice the cell margin: the width budget is zero
ScanZeroX == 561260

ScanTexts == ShortTexts \cup {<<"a", " ", "a", " ", "a">>, <<"a", "a", "a", "a", "a">>}

ScanMultiCellArgs ==
  {<<w, h, t, <<>>, al, FALSE>> :
     w \in TextWidths, h \in {CellHeight, TallCell}, t \in ScanTexts, al \in {"L", "J"}}

ScanWriteArgs == {<<h, t, NoLink>> : h \in {CellHeight, TallCell}, t \in ScanTexts}

ScanAddPage ==
  /\ nops < MaxScanOps
  /\ p.page = 0
  /\ Apply("AddPage", <<"", "", 0>>, AddPage(Begin(p), "", "", 0))

ScanSetFont ==
  /\ nops < MaxScanOps
  /\ call.op = "AddPage"
  /\ \E a \in {<<"Courier", "", 12>>, <<"Courier", "", FontNonePerLine>>} :
       Apply("SetFont", a, SetFont(Begin(p), a[1], a[2], a[3]))

ScanSetXY ==
  /\ nops < MaxScanOps
  /\ call.op = "SetFont"
  /\ \E a \in {<<DefaultMargin, NearBottom>>, <<WriteColumnX, DefaultMargin>>,
               <<ScanColumnX, NearBottom>>, <<ScanZeroX, NearBottom>>} :
       Apply("SetXY", a, SetXY(Begin(p), a[1], a[2]))

\* the call begins: the statements before the for loop
ScanBegins(name, args, d, record) ==
  /\ p' = d
  /\ call' = Called(name, args)
  /\ nops' = nops + 1
  /\ ret' = ret
  /\ scan' = IF d.err # "" THEN NoScan ELSE record
  /\ tick' = IF d.err # "" THEN 0 ELSE 1

ScanMultiCell ==
  /\ nops < MaxScanOps
  /\ scan.op = "none"
  /\ call.op \in {"AddPage", "SetFont", "SetXY"}
  /\ \E a \in ScanMultiCellArgs :
       ScanBegins("MultiCell", a,
               IF p.currentFont.typ = "nil"
               THEN panicError(Begin(p), "no font has been set")
               ELSE Begin(p),
               [op |-> "MultiCell", st |-> MultiCellInit(Begin(p), a[4]),
                w |-> MultiCellWidth(p, a[1]), h |-> a[2], s |-> StripCR(a[3]),
                nb |-> MultiCellNb(StripCR(a[3])), border |-> a[4], align |-> a[5],
                fill |-> a[6], link |-> NoLink, d0 |-> Begin(p), a |-> a])

ScanWrite ==
  /\ nops < MaxScanOps
  /\ scan.op = "none"
  /\ call.op \in {"AddPage", "SetFont", "SetXY"}
  /\ \E a \in ScanWriteArgs :
       ScanBegins("Write", a,
               IF p.currentFont.typ = "nil"
               THEN panicError(Begin(p), "no font has been set")
               ELSE Begin(p),
               [op |-> "Write", st |-> WriteInit(Begin(p)), w |-> 0, h |-> a[1],
                s |-> StripCR(a[2]), nb |-> Len(StripCR(a[2])), border |-> <<>>,
                align |-> "", fill |-> FALSE, link |-> a[3], d0 |-> Begin(p), a |-> a])

\* the for loop goes on
Scanning == scan.op # "none"

LoopGoesOn == Scanning /\ scan.st.d.err = "" /\ scan.st.i < scan.nb

\* one iteration of the for loop of the call in progress
Iteration ==
  IF scan.op = "MultiCell"
  THEN MultiCellStep(scan.st, scan.s[scan.st.i + 1], scan.w, scan.h, scan.s, scan.align,
                     scan.fill)
  ELSE WriteStep(scan.st, scan.s[scan.st.i + 1], scan.h, scan.s, scan.link)

ScanIterate ==
  /\ LoopGoesOn
  /\ scan' = [scan EXCEPT !.st = Iteration]
  /\ p' = scan'.st.d
  /\ tick' = 3 - tick
  /\ UNCHANGED <<call, nops, ret>>

\* the code after the loop, and the return
AfterLoop ==
  IF scan.op = "MultiCell"
  THEN MultiCellLast(scan.st, scan.w, scan.h, scan.s, scan.border, scan.align, scan.fill)
  ELSE WriteLast(scan.st, scan.h, scan.s, scan.link)

ScanReturn ==
  /\ Scanning
  /\ ~LoopGoesOn
  /\ p' = AfterLoop
  /\ scan' = NoScan
  /\ tick' = 0
  /\ UNCHANGED <<call, nops, ret>>

NextScan ==
  \/ ScanAddPage
  \/ ScanSetFont
  \/ ScanSetXY
  \/ ScanMultiCell
  \/ ScanWrite
  \/ ScanIterate
  \/ ScanReturn

SpecScan == Init /\ [][NextScan]_vars

\* The goroutine that made the call keeps running: a call in progress
\* executes its next iteration, or its return, which is what changes tick.
ScanRuns == Scanning /\ tick' \in 0 .. 2

SpecScanFair == SpecScan /\ WF_tick(ScanRuns)

\* the call, taken iteration by iteration, ends where MultiCell and Write
\* taken whole end
ScanAgreesStep ==
  (Scanning /\ scan'.op = "none") =>
    p' = (IF scan.op = "MultiCell"
          THEN MultiCell(scan.d0, scan.a[1], scan.a[2], scan.a[3], scan.a[4], scan.a[5],
                         scan.a[6])
          ELSE Write(scan.d0, scan.a[1], scan.a[2], scan.a[3]))

ScanAgrees == [][ScanAgreesStep]_vars

\* the step is an iteration of the for loop
Iterated == Scanning /\ scan'.op # "none"

\* the step has called Cell with line break mode 2: one line further down,
\* or at the top of a new page
LineEmitted == p'.y = (IF p'.page > p.page THEN p'.tMargin ELSE p.y) + scan.h

C23_Step ==
  /\ Iterated =>
       \/ scan'.st.i > scan.st.i
       \/ scan'.st.j > scan.st.j /\ LineEmitted
  /\ Scanning => p'.page <= p.page + 1

(***************************************************************************)
(* C23.  MultiCell and Write terminate on every text, width and cursor     *)
(* position: each iteration of the scan advances the scan index, or emits  *)
(* a line and moves the line start strictly forward; each emitted Cell     *)
(* breaks the page at most once; and a call that has begun returns.        *)
(***************************************************************************)
C23_ScansTerminate == [][C23_Step]_vars /\ (Scanning ~> ~Scanning)

\* MultiCell has returned from a text without a separator under a negative
\* width budget, after a page break
C23_Witness ==
  /\ scan.op = "none"
  /\ call.op = "MultiCell"
  /\ call.a[1] = WidthNegative
  /\ call.a[3] = <<"a", "a", "a">>
  /\ p.err = ""
  /\ p.page > call.page

====
